---- MODULE Spec2Model ----
(***************************************************************************)
(* redforecast: the snapshot store (utils/update_history.py), the          *)
(* closest-date resolver (utils/misc.py) and the structural diff engine    *)
(* (mcpserver/mcptools/mcptools.py).                                       *)
(*                                                                         *)
(* Python values are tagged records:                                       *)
(*   None        [t |-> "null"]                                            *)
(*   float nan   [t |-> "nan"]                                             *)
(*   int         [t |-> "num",  n |-> an integer]                          *)
(*   str         [t |-> "str",  s |-> its text]                            *)
(*   dict        [t |-> "dict", d |-> a function from key texts to values] *)
(*   list        [t |-> "list", l |-> a sequence of values]                *)
(* A text is a sequence of pieces.  Field names and data are kept          *)
(* character by character, so that endswith, strip, the composite-key      *)
(* concatenation and the lexicographic date comparison are computed and    *)
(* not assumed; the fixed parts of the f-string templates are one piece    *)
(* each.                                                                   *)
(***************************************************************************)
EXTENDS Integers, Sequences, FiniteSets, TLC

VARIABLES
  store,      \* table forecast: the rows (fdate, json_data) in rowid order
  today,      \* the day of the month date.today() falls on
  writers,    \* per snapshot job: its position in app_run and the date it holds
  resp,       \* what the last store operation returned to its caller
  hashseed,   \* the process's string-hash seed: fixes the iteration order of sets
  df,         \* mcp_config.df: the dataframe the reporting tools read, None until loaded
  call,       \* the function under test and its arguments
  result      \* what the function under test returned, None before the call

vars == <<store, today, writers, resp, hashseed, df, call, result>>

-----------------------------------------------------------------------------
(* String literals of the source.                                          *)
s_Client == <<"C", "l", "i", "e", "n", "t">>
s_ProjectName == <<"P", "r", "o", "j", "e", "c", "t", " ", "N", "a", "m", "e">>
s_id == <<"i", "d">>
s_TotalValue == <<"T", "o", "t", "a", "l", " ", "V", "a", "l", "u", "e">>
s_Start == <<"S", "t", "a", "r", "t">>
s_Duration == <<"D", "u", "r", "a", "t", "i", "o", "n">>
s_Opportunities == <<"O", "p", "p", "o", "r", "t", "u", "n", "i", "t", "i", "e", "s">>
s_oldest == <<"o", "l", "d", "e", "s", "t">>
s_newest == <<"n", "e", "w", "e", "s", "t">>
s_difference == <<"d", "i", "f", "f", "e", "r", "e", "n", "c", "e">>
s_value == <<"v", "a", "l", "u", "e">>
s_status == <<"s", "t", "a", "t", "u", "s">>
s_difference_explanation == <<"d", "i", "f", "f", "e", "r", "e", "n", "c", "e", "_", "e", "x", "p", "l", "a", "n", "a", "t", "i", "o", "n">>
s_New == <<"N", "e", "w">>
s_Deleted == <<"D", "e", "l", "e", "t", "e", "d">>
s_Modified == <<"M", "o", "d", "i", "f", "i", "e", "d">>
s_Unchanged == <<"U", "n", "c", "h", "a", "n", "g", "e", "d">>
s_Field == <<"F", "i", "e", "l", "d">>
s_None == <<"N", "o", "n", "e">>
s_nan == <<"n", "a", "n">>
excluded_fields ==
  {
    <<"P", "C", "C">>, <<"P", "E">>, <<"C", "P", "I", "S">>,
    <<"D", "e", "s", "i", "g", "n">>, <<"T", "e", "c", "h">>, <<"O", "t", "h", "e", "r", "s">>,
    <<"P", "P", "C", "C">>, <<"P", "P", "E">>, <<"P", "C", "P", "S">>,
    <<"P", "C", "B", "E">>, <<"P", "d", "e", "s", "i", "g", "n">>, <<"P", "T", "e", "c", "h">>,
    <<"J", "a", "n", "u", "a", "r", "y">>, <<"F", "e", "b", "r", "u", "a", "r", "y">>, <<"M", "a", "r", "c", "h">>,
    <<"A", "p", "r", "i", "l">>, <<"M", "a", "y">>, <<"J", "u", "n", "e">>,
    <<"J", "u", "l", "y">>, <<"A", "u", "g", "u", "s", "t">>, <<"S", "e", "p", "t", "e", "m", "b", "e", "r">>,
    <<"O", "c", "t", "o", "b", "e", "r">>, <<"N", "o", "v", "e", "m", "b", "e", "r">>, <<"D", "e", "c", "e", "m", "b", "e", "r">>,
    <<"Q", "1">>, <<"Q", "2">>, <<"Q", "3">>,
    <<"Q", "4">>, <<"F", "Y">>, <<"N", "e", "x", "t", " ", "y", "e", "a", "r", "s">>,
    <<"F", "a", "c", "t", "o", "r", "i", "e", "s", " ", "s", "p", "l", "i", "t">>, <<"R", "e", "v", "e", "n", "u", "e", "s", " ", "b", "y", " ", "m", "o", "n", "t", "h">>, <<"i", "d">>
  }
s_sep == <<"_", "_">>
s_suffix_id == <<"_", "i", "d">>
s_suffix_Id == <<"I", "d">>
s_0 == <<"0">>
s_empty == <<>>

-----------------------------------------------------------------------------
(* Python values and the built-ins the diff engine uses.                   *)

Null == [t |-> "null"]
NaN == [t |-> "nan"]
Num(n) == [t |-> "num", n |-> n]
Str(s) == [t |-> "str", s |-> s]
Dict(f) == [t |-> "dict", d |-> f]
List(q) == [t |-> "list", l |-> q]

\* An exception propagating out of a call.
Raise(exc) == [t |-> "raise", exc |-> exc]

IsRaise(v) == v.t = "raise"

\* A dict display {k1: v1, k2: v2, ...}: a later pair replaces an earlier one.
MkDict(pairs) ==
  Dict([k \in {pairs[i][1] : i \in DOMAIN pairs} |->
          pairs[CHOOSE i \in DOMAIN pairs :
                  /\ pairs[i][1] = k
                  /\ \A j \in DOMAIN pairs : pairs[j][1] = k => j <= i][2]])

\* dict.get(key, default)
Get(o, key, default) == IF key \in DOMAIN o.d THEN o.d[key] ELSE default

\* o[key] = v
SetItem(o, key, v) ==
  Dict([k \in DOMAIN o.d \cup {key} |-> IF k = key THEN v ELSE o.d[k]])

\* bool(v) for the values tested with `if opp` (None, dict, list, str, numbers)
Truthy(v) ==
  CASE v.t = "null" -> FALSE
    [] v.t = "dict" -> DOMAIN v.d # {}
    [] v.t = "list" -> Len(v.l) > 0
    [] v.t = "str" -> Len(v.s) > 0
    [] v.t = "num" -> v.n # 0
    [] OTHER -> TRUE

RECURSIVE HasNaN(_)
HasNaN(v) ==
  CASE v.t = "nan" -> TRUE
    [] v.t = "dict" -> \E k \in DOMAIN v.d : HasNaN(v.d[k])
    [] v.t = "list" -> \E i \in DOMAIN v.l : HasNaN(v.l[i])
    [] OTHER -> FALSE

\* v1 == v2: structural, and float nan equals nothing, itself included
PyEq(v1, v2) == v1 = v2 /\ ~HasNaN(v1)

\* isinstance(v, (int, float))
IsNumber(v) == v.t \in {"num", "nan"}

\* v2 - v1 on numbers
PySub(v2, v1) == IF v1.t = "nan" \/ v2.t = "nan" THEN NaN ELSE Num(v2.n - v1.n)

Whitespace == {" ", "\t", "\n", "\r"}

RECURSIVE LStrip(_)
LStrip(s) == IF s # <<>> /\ Head(s) \in Whitespace THEN LStrip(Tail(s)) ELSE s

RECURSIVE RStrip(_)
RStrip(s) ==
  IF s # <<>> /\ s[Len(s)] \in Whitespace THEN RStrip(SubSeq(s, 1, Len(s) - 1)) ELSE s

\* str.strip()
PyStrip(s) == RStrip(LStrip(s))

\* str.endswith(suffix)
EndsWith(s, suffix) ==
  /\ Len(s) >= Len(suffix)
  /\ SubSeq(s, Len(s) - Len(suffix) + 1, Len(s)) = suffix

Digit(n) == <<"0", "1", "2", "3", "4", "5", "6", "7", "8", "9">>[n + 1]

RECURSIVE Digits(_)
Digits(n) == IF n < 10 THEN <<Digit(n)>> ELSE Digits(n \div 10) \o <<Digit(n % 10)>>

\* str(v) as an f-string field renders it; a container is rendered as one
\* piece that names its kind
PyStr(v) ==
  CASE v.t = "null" -> s_None
    [] v.t = "nan" -> s_nan
    [] v.t = "num" -> IF v.n < 0 THEN <<"-">> \o Digits(0 - v.n) ELSE Digits(v.n)
    [] v.t = "str" -> v.s
    [] v.t = "dict" -> <<"{...}">>
    [] v.t = "list" -> <<"[...]">>

RECURSIVE Join(_, _)
\* sep.join(texts)
Join(sep, texts) ==
  IF texts = <<>> THEN <<>>
  ELSE IF Len(texts) = 1 THEN texts[1]
  ELSE texts[1] \o sep \o Join(sep, Tail(texts))

RECURSIVE SetToSeq(_)
SetToSeq(S) ==
  IF S = {} THEN <<>>
  ELSE LET x == CHOOSE y \in S : TRUE IN <<x>> \o SetToSeq(S \ {x})

Reverse(q) == [i \in 1..Len(q) |-> q[Len(q) + 1 - i]]

\* The order in which `for k in a_set` visits a set of strings: fixed within a
\* process by its hash seed, and different between two seeds.
IterOrder(S) == IF hashseed THEN SetToSeq(S) ELSE Reverse(SetToSeq(S))

\* `a and b`, `a or b`, `not a` on the outcome of a test that is "True",
\* "False" or the exception it raised; b counts only when a lets it run.
And3(a, b) == IF a = "True" THEN b ELSE a
Or3(a, b) == IF a = "False" THEN b ELSE a
Not3(a) == IF a = "True" THEN "False" ELSE IF a = "False" THEN "True" ELSE a
Bool3(p) == IF p THEN "True" ELSE "False"

-----------------------------------------------------------------------------
(* compare_forecast_entries of mcpserver/mcptools/mcptools.py              *)

\* annotate_diff without its test `v1 != v2`
annotate_diff_always(v1, v2) ==
  MkDict(<< <<s_oldest, v1>>, <<s_newest, v2>>,
            <<s_difference,
              IF IsNumber(v1) /\ IsNumber(v2) THEN PySub(v2, v1) ELSE v2>> >>)

annotate_diff(v1, v2) ==
  IF ~PyEq(v1, v2)
  THEN MkDict(<< <<s_oldest, v1>>, <<s_newest, v2>>,
                 <<s_difference,
                   IF IsNumber(v1) /\ IsNumber(v2) THEN PySub(v2, v1) ELSE v2>> >>)
  ELSE MkDict(<< <<s_value, v1>> >>)

RECURSIVE pd_isna(_)
\* the truth value `if pd.isna(value):` tests; an array of two or more
\* elements has none (ValueError)
pd_isna(value) ==
  CASE value.t \in {"null", "nan"} -> "True"
    [] value.t = "list" ->
         IF Len(value.l) = 0 THEN "False"
         ELSE IF Len(value.l) = 1 THEN pd_isna(value.l[1])
         ELSE "ValueError"
    [] OTHER -> "False"

\* is_empty without the strip: a string of blanks is not empty
is_empty_unstripped(value) ==
  IF value.t = "null" THEN "True"
  ELSE IF value.t = "str" /\ value.s = s_empty THEN "True"
  ELSE IF value.t = "list" /\ Len(value.l) = 0 THEN "True"
  ELSE IF value.t = "dict" /\ DOMAIN value.d = {} THEN "True"
  ELSE pd_isna(value)

is_empty(value) ==
  IF value.t = "null" THEN "True"
  ELSE IF value.t = "str" /\ PyStrip(value.s) = s_empty THEN "True"
  ELSE IF value.t = "list" /\ Len(value.l) = 0 THEN "True"
  ELSE IF value.t = "dict" /\ DOMAIN value.d = {} THEN "True"
  ELSE pd_isna(value)

should_exclude_field(field_key) ==
  \/ field_key \in excluded_fields
  \/ EndsWith(field_key, s_suffix_id)
  \/ EndsWith(field_key, s_suffix_Id)

filter_excluded_fields(opp) ==
  Dict([k \in {f \in DOMAIN opp.d : ~should_exclude_field(f)} |-> opp.d[k]])

RECURSIVE deep_annotate(_, _, _)
deep_annotate(o1, o2, field_key) ==
  LET e1 == is_empty(o1)
      e2 == is_empty(o2)
      both == And3(e1, e2)
      gained == And3(e1, Not3(e2))
      same == Or3(Bool3(PyEq(o1, o2)), And3(Not3(e1), e2))
  IN
  IF field_key \in {Str(s_Start), Str(s_Duration)} THEN
    IF both \notin {"True", "False"} THEN Raise(both)
    ELSE IF both = "True" THEN MkDict(<< <<s_value, Null>> >>)
    ELSE IF gained = "True"
    THEN MkDict(<< <<s_oldest, o1>>, <<s_newest, o2>>, <<s_difference, o2>> >>)
    ELSE IF same \notin {"True", "False"} THEN Raise(same)
    ELSE IF same = "True" THEN MkDict(<< <<s_value, o1>> >>)
    ELSE annotate_diff(o1, o2)
  ELSE IF both \notin {"True", "False"} THEN Raise(both)
  ELSE IF both = "True" THEN MkDict(<< <<s_value, Null>> >>)
  ELSE IF o1.t = "null"
  THEN MkDict(<< <<s_oldest, Null>>, <<s_newest, o2>>, <<s_difference, o2>> >>)
  ELSE IF o2.t = "null"
  THEN MkDict(<< <<s_oldest, o1>>, <<s_newest, Null>>, <<s_difference, Null>> >>)
  ELSE IF o1.t = "dict" /\ o2.t = "dict" THEN
    LET keys == {k \in DOMAIN o1.d \cup DOMAIN o2.d : ~should_exclude_field(k)}
        sub == [k \in keys |-> deep_annotate(Get(o1, k, Null), Get(o2, k, Null), Str(k))]
    IN IF \E k \in keys : IsRaise(sub[k])
       THEN sub[CHOOSE k \in keys : IsRaise(sub[k])]
       ELSE Dict(sub)
  ELSE IF o1.t = "list" /\ o2.t = "list" THEN
    LET max_len == IF Len(o1.l) >= Len(o2.l) THEN Len(o1.l) ELSE Len(o2.l)
        item(q, i) == IF i <= Len(q) THEN q[i] ELSE Null
        items == [i \in 1..max_len |-> deep_annotate(item(o1.l, i), item(o2.l, i), Null)]
    IN IF \E i \in 1..max_len : IsRaise(items[i])
       THEN items[CHOOSE i \in 1..max_len : IsRaise(items[i])]
       ELSE MkDict(<< <<s_value, List(items)>> >>)
  ELSE annotate_diff(o1, o2)

RECURSIVE check_for_differences(_)
check_for_differences(obj) ==
  CASE obj.t = "dict" ->
         \/ s_oldest \in DOMAIN obj.d /\ s_newest \in DOMAIN obj.d
         \/ \E k \in DOMAIN obj.d : check_for_differences(obj.d[k])
    [] obj.t = "list" -> \E i \in DOMAIN obj.l : check_for_differences(obj.l[i])
    [] OTHER -> FALSE

\* explain_leaf without the quotes around two values that are not numbers
explain_leaf_unquoted(obj, path) ==
  LET field_name == IF path # <<>> THEN Join(<<".">>, path) ELSE s_Field
      old_val == obj.d[s_oldest]
      new_val == obj.d[s_newest]
      diff == PySub(new_val, old_val)
  IN IF IsNumber(old_val) /\ IsNumber(new_val)
     THEN IF diff.t = "num" /\ diff.n > 0
          THEN field_name \o <<" increased from ">> \o PyStr(old_val) \o <<" to ">>
                 \o PyStr(new_val) \o <<" (+">> \o PyStr(diff) \o <<")">>
          ELSE field_name \o <<" decreased from ">> \o PyStr(old_val) \o <<" to ">>
                 \o PyStr(new_val) \o <<" (">> \o PyStr(diff) \o <<")">>
     ELSE field_name \o <<" changed from ">> \o PyStr(old_val) \o <<" to ">>
            \o PyStr(new_val)

\* the line of one changed leaf
explain_leaf(obj, path) ==
  LET field_name == IF path # <<>> THEN Join(<<".">>, path) ELSE s_Field
      old_val == obj.d[s_oldest]
      new_val == obj.d[s_newest]
      diff == PySub(new_val, old_val)
  IN IF IsNumber(old_val) /\ IsNumber(new_val)
     THEN IF diff.t = "num" /\ diff.n > 0
          THEN field_name \o <<" increased from ">> \o PyStr(old_val) \o <<" to ">>
                 \o PyStr(new_val) \o <<" (+">> \o PyStr(diff) \o <<")">>
          ELSE field_name \o <<" decreased from ">> \o PyStr(old_val) \o <<" to ">>
                 \o PyStr(new_val) \o <<" (">> \o PyStr(diff) \o <<")">>
     ELSE field_name \o <<" changed from '">> \o PyStr(old_val) \o <<"' to '">>
            \o PyStr(new_val) \o <<"'">>

RECURSIVE Flatten(_)
Flatten(qs) == IF qs = <<>> THEN <<>> ELSE Head(qs) \o Flatten(Tail(qs))

RECURSIVE generate_difference_explanation_every_key(_, _)
\* generate_difference_explanation that walks into every key of a mapping
generate_difference_explanation_every_key(obj, path) ==
  CASE obj.t = "dict" ->
         IF s_oldest \in DOMAIN obj.d /\ s_newest \in DOMAIN obj.d
         THEN <<explain_leaf(obj, path)>>
         ELSE LET keys == IterOrder(DOMAIN obj.d)
              IN Flatten([i \in DOMAIN keys |->
                   generate_difference_explanation_every_key(obj.d[keys[i]],
                                                             Append(path, keys[i]))])
    [] obj.t = "list" ->
         Flatten([i \in DOMAIN obj.l |->
           generate_difference_explanation_every_key(obj.l[i],
             Append(path, <<"[">> \o Digits(i - 1) \o <<"]">>))])
    [] OTHER -> <<>>

RECURSIVE generate_difference_explanation(_, _)
\* the list of lines, in the order the walk meets the changed leaves
generate_difference_explanation(obj, path) ==
  CASE obj.t = "dict" ->
         IF s_oldest \in DOMAIN obj.d /\ s_newest \in DOMAIN obj.d
         THEN <<explain_leaf(obj, path)>>
         ELSE LET keys == IterOrder(DOMAIN obj.d \ {s_id, s_status, s_difference_explanation})
              IN Flatten([i \in DOMAIN keys |->
                   generate_difference_explanation(obj.d[keys[i]], Append(path, keys[i]))])
    [] obj.t = "list" ->
         Flatten([i \in DOMAIN obj.l |->
           generate_difference_explanation(obj.l[i],
             Append(path, <<"[">> \o Digits(i - 1) \o <<"]">>))])
    [] OTHER -> <<>>

\* create_composite_key on the id
create_composite_key_by_id(opp) ==
  PyStr(Get(opp, s_id, Str(s_empty)))

create_composite_key(opp) ==
  PyStr(Get(opp, s_Client, Str(s_empty))) \o s_sep
    \o PyStr(Get(opp, s_ProjectName, Str(s_empty)))

\* {create_composite_key(opp): opp for opp in opportunities}
KeyedOpps(opportunities) ==
  [k \in {create_composite_key(opportunities[i]) : i \in DOMAIN opportunities} |->
     opportunities[CHOOSE i \in DOMAIN opportunities :
        /\ create_composite_key(opportunities[i]) = k
        /\ \A j \in DOMAIN opportunities :
             create_composite_key(opportunities[j]) = k => j <= i]]

\* data.get("forecasts", {}).get(date, {}).get("forecast", {}).get("Opportunities", [])
Opportunities(dat, date) ==
  IF date \in DOMAIN dat THEN Get(dat[date], s_Opportunities, List(<<>>)).l ELSE <<>>

\* skip_total_zero with the number 0 for the text "0"
skip_total_zero_number(opp1) ==
  Truthy(opp1) /\ PyEq(Get(opp1, s_TotalValue, Null), Num(0))

\* `opp1 and opp1.get("Total Value") == "0"`
skip_total_zero(opp1) ==
  Truthy(opp1) /\ PyEq(Get(opp1, s_TotalValue, Null), Str(s_0))

\* One turn of the loop over all_keys: what it appends to annotated_opps (no
\* record or one), or <<Raise(exc)>> when it raises.
annotate_key(key, opps1, opps2, d1, d2) ==
  LET opp1 == IF key \in DOMAIN opps1 THEN opps1[key] ELSE Null
      opp2 == IF key \in DOMAIN opps2 THEN opps2[key] ELSE Null
      skip2 == And3(is_empty(Get(opp1, s_Start, Null)),
               And3(is_empty(Get(opp2, s_Start, Null)),
               And3(is_empty(Get(opp1, s_Duration, Null)),
                    is_empty(Get(opp2, s_Duration, Null)))))
      annotated == deep_annotate(opp1, opp2, Null)
      with_id == SetItem(annotated, s_id, Get(opp2, s_id, Get(opp1, s_id, Str(s_empty))))
      explanations == generate_difference_explanation(with_id, <<>>)
      single(opp, status, explanation) ==
        LET filtered == filter_excluded_fields(opp)
            head == MkDict(<< <<s_id, Get(opp, s_id, Str(s_empty))>>,
                              <<s_status, Str(status)>>,
                              <<s_difference_explanation, Str(explanation)>> >>)
        IN Dict([k \in DOMAIN head.d \cup DOMAIN filtered.d |->
                   IF k \in DOMAIN filtered.d THEN filtered.d[k] ELSE head.d[k]])
  IN
  IF skip_total_zero(opp1) THEN <<>>
  ELSE IF Truthy(opp1) /\ Truthy(opp2) THEN
    IF skip2 \notin {"True", "False"} THEN <<Raise(skip2)>>
    ELSE IF skip2 = "True" THEN <<>>
    ELSE IF IsRaise(annotated) THEN <<annotated>>
    ELSE IF check_for_differences(with_id)
    THEN << SetItem(SetItem(with_id, s_status, Str(s_Modified)),
                    s_difference_explanation,
                    Str(IF explanations # <<>>
                        THEN Join(<<"\n">>, explanations)
                        ELSE <<"No specific differences found">>)) >>
    ELSE << SetItem(with_id, s_status, Str(s_Unchanged)) >>
  ELSE IF Truthy(opp1)
  THEN << single(opp1, s_Deleted,
            <<"This opportunity was present in ">> \o PyStr(d1)
              \o <<" but removed in ">> \o PyStr(d2)) >>
  ELSE IF Truthy(opp2)
  THEN << single(opp2, s_New, <<"This is a new opportunity added in ">> \o PyStr(d2)) >>
  ELSE <<>>

\* annotated_opps when the loop over all_keys has ended, as a list; or the
\* exception that ended it
annotated_opps(dat, d1, d2) ==
  LET opps1 == KeyedOpps(Opportunities(dat, d1))
      opps2 == KeyedOpps(Opportunities(dat, d2))
      all_keys == IterOrder(DOMAIN opps1 \cup DOMAIN opps2)
      turns == [i \in DOMAIN all_keys |-> annotate_key(all_keys[i], opps1, opps2, d1, d2)]
      raising == {i \in DOMAIN turns : turns[i] # <<>> /\ IsRaise(turns[i][1])}
  IN IF raising # {}
     THEN turns[CHOOSE i \in raising : \A j \in raising : i <= j][1]
     ELSE List(Flatten(turns))

\* the output filter that drops nothing
filter_unchanged_never(opps) ==
  opps

\* the output filter
filter_unchanged(opps) ==
  LET changed(opp) ==
        Get(opp, s_status, Null) \in {Str(s_Modified), Str(s_New), Str(s_Deleted)}
      has_any_differences == \E i \in DOMAIN opps : changed(opps[i])
  IN IF has_any_differences
     THEN SelectSeq(opps, LAMBDA opp : Get(opp, s_status, Null) # Str(s_Unchanged))
     ELSE opps

compare_forecast_entries(dat, d1, d2) ==
  LET all == annotated_opps(dat, d1, d2)
  IN IF IsRaise(all) THEN all ELSE List(filter_unchanged(all.l))

-----------------------------------------------------------------------------
(* The snapshot store: table forecast(fdate, json_data) of the SQLite      *)
(* database.  A row holds the date text and the JSON document.             *)

\* Characters of a date text in the order of their codes (BINARY collation).
Charset == <<"-", "0", "1", "2", "3", "4", "5", "6", "7", "8", "9">>

Ord(c) == CHOOSE i \in DOMAIN Charset : Charset[i] = c

RECURSIVE TextLess(_, _)
\* a < b on TEXT values
TextLess(a, b) ==
  IF b = <<>> THEN FALSE
  ELSE IF a = <<>> THEN TRUE
  ELSE IF Head(a) = Head(b) THEN TextLess(Tail(a), Tail(b))
  ELSE Ord(Head(a)) < Ord(Head(b))

TextLE(a, b) == a = b \/ TextLess(a, b)

\* date(2025, 6, day).strftime('%Y-%m-%d')
strftime(day) ==
  <<"2", "0", "2", "5", "-", "0", "6", "-", Digit(day \div 10), Digit(day % 10)>>

RECURSIVE InsertSorted(_, _, _)
InsertSorted(row, rows, desc) ==
  IF rows = <<>> THEN <<row>>
  ELSE IF (IF desc THEN TextLess(Head(rows).fdate, row.fdate)
                   ELSE TextLess(row.fdate, Head(rows).fdate))
  THEN <<row>> \o rows
  ELSE <<Head(rows)>> \o InsertSorted(row, Tail(rows), desc)

RECURSIVE OrderByFdate(_, _)
\* ORDER BY fdate ASC / DESC
OrderByFdate(rows, desc) ==
  IF rows = <<>> THEN <<>>
  ELSE InsertSorted(Head(rows), OrderByFdate(Tail(rows), desc), desc)

\* cursor.fetchone() after ... LIMIT 1, then `result[0] if result else None`
FetchDate(rows) == IF rows = <<>> THEN Null ELSE Str(Head(rows).fdate)

\* get_closest_dates with the first query ordered ASC instead of DESC
get_closest_dates_ascending(db, d1, d2) ==
  LET backward == OrderByFdate(SelectSeq(db, LAMBDA r : TextLE(r.fdate, d1)), FALSE)
      forward == OrderByFdate(SelectSeq(db, LAMBDA r : TextLE(d2, r.fdate)), FALSE)
  IN <<FetchDate(backward), FetchDate(forward)>>

get_closest_dates(db, d1, d2) ==
  LET backward == OrderByFdate(SelectSeq(db, LAMBDA r : TextLE(r.fdate, d1)), TRUE)
      forward == OrderByFdate(SelectSeq(db, LAMBDA r : TextLE(d2, r.fdate)), FALSE)
  IN <<FetchDate(backward), FetchDate(forward)>>

\* SELECT json_data FROM forecast WHERE fdate = ?  (a NULL parameter matches no row)
SelectByDate(db, d) ==
  IF d.t = "null" THEN <<>> ELSE SelectSeq(db, LAMBDA r : r.fdate = d.s)

\* result["forecasts"] of get_forecast / compare_forecast_dates: the forecast
\* read for each of the two resolved dates that has a row
read_forecasts(db, d1, d2) ==
  [d \in {x \in {d1, d2} : SelectByDate(db, x) # <<>>} |-> Head(SelectByDate(db, d)).json_data]

get_forecast(db, d1, d2) ==
  LET closest == get_closest_dates(db, d1, d2)
  IN [forecasts |-> read_forecasts(db, closest[1], closest[2])]

\* record_exists with `count > 1` instead of `count > 0`
record_exists_twice(db, date_str) ==
  Len(SelectSeq(db, LAMBDA r : r.fdate = date_str)) > 1

record_exists(db, date_str) ==
  Len(SelectSeq(db, LAMBDA r : r.fdate = date_str)) > 0

\* insert_record as INSERT OR REPLACE on the date
insert_record_replace(db, date_str, json_data) ==
  Append(SelectSeq(db, LAMBDA r : r.fdate # date_str),
         [fdate |-> date_str, json_data |-> json_data])

insert_record(db, date_str, json_data) ==
  Append(db, [fdate |-> date_str, json_data |-> json_data])

\* mcp_config.db of the server process: Config.db, which nothing assigns
mcp_config_db == Null

-----------------------------------------------------------------------------
(* Bounds and the inputs drawn within them.                                *)

\* days the clock runs through, 2025-06-01 onward
MaxDay == 3
\* rows the table is let grow to
MaxRows == 2
\* opportunities in one forecast under test
MaxOpps == 2

Days == 1..MaxDay

\* a record as create_json writes it
Opp(client, project_name, id, total_value, start, duration) ==
  MkDict(<< <<s_Client, client>>, <<s_ProjectName, project_name>>, <<s_id, id>>,
            <<s_TotalValue, total_value>>, <<s_Start, start>>, <<s_Duration, duration>> >>)

\* {"Opportunities": [...]}
Forecast(opps) == MkDict(<< <<s_Opportunities, List(opps)>> >>)

OppAX == Opp(Str(<<"A">>), Str(<<"X">>), Num(1), Str(<<"1", "0", "0">>),
             Str(<<"M", "a", "r", "c", "h">>), Str(<<"3">>))
OppBY == Opp(Str(<<"B">>), Str(<<"Y">>), Num(3), Str(<<"2", "0", "0">>),
             Str(<<"A", "p", "r", "i", "l">>), Str(<<"1">>))

\* the forecasts the spreadsheet yields on the days of the model
Payloads ==
  { Forecast(<<OppAX>>),
    Forecast(<<SetItem(OppAX, s_TotalValue, Str(<<"1", "5", "0">>)), OppBY>>) }

Writers == {"job1", "job2"}

Idle == [pc |-> "idle", today |-> s_empty]

-----------------------------------------------------------------------------
(* The store and its callers.                                              *)

NoCall == [fn |-> "none"]

NoResp == [op |-> "none"]

Init ==
  /\ store = <<>>
  /\ today = 1
  /\ writers = [w \in Writers |-> Idle]
  /\ resp = NoResp
  /\ hashseed = TRUE
  /\ df = Null
  /\ call = NoCall
  /\ result = Null

\* midnight; a run of the job is short against a day and is taken not to
\* straddle it
Tick ==
  /\ today < MaxDay
  /\ \A w \in Writers : writers[w].pc = "idle"
  /\ today' = today + 1
  /\ resp' = NoResp
  /\ UNCHANGED <<store, writers, hashseed, df, call, result>>

\* app_run of update_history.py up to the test `if not record_exists(...)`:
\* the job reads the date and asks the table
JobCheck(w) ==
  /\ writers[w].pc = "idle"
  /\ LET date_str == strftime(today)
         found == record_exists(store, date_str)
     IN /\ writers' = [writers EXCEPT ![w] =
                         IF found THEN Idle ELSE [pc |-> "checked", today |-> date_str]]
        /\ resp' = [op |-> "record_exists", date |-> date_str, value |-> found]
  /\ UNCHANGED <<store, today, hashseed, df, call, result>>

\* app_run of update_history.py: insert_record(db_connection, today, json_data).
\* json_data is what create_json made of the spreadsheet before the test;
\* nothing reads it until here, where it is drawn.
JobInsert(w) ==
  /\ writers[w].pc = "checked"
  /\ Len(store) < MaxRows
  /\ \E json_data \in Payloads :
       store' = insert_record(store, writers[w].today, json_data)
  /\ writers' = [writers EXCEPT ![w] = Idle]
  /\ resp' = [op |-> "insert_record", date |-> writers[w].today, raised |-> "no"]
  /\ UNCHANGED <<today, hashseed, df, call, result>>

\* get_forecast(conn, date1, date2) of update_history.py
GetForecast ==
  /\ \E d1 \in Days, d2 \in Days :
       resp' = [op |-> "get_forecast", date1 |-> strftime(d1), date2 |-> strftime(d2),
                closest |-> get_closest_dates(store, strftime(d1), strftime(d2)),
                forecasts |-> get_forecast(store, strftime(d1), strftime(d2)).forecasts]
  /\ UNCHANGED <<store, today, writers, hashseed, df, call, result>>

\* json.dumps({"differences": differences}); an exception of the diff passes
\* through
json_differences(differences) ==
  IF IsRaise(differences) THEN differences
  ELSE [t |-> "json", differences |-> differences]

\* the server tool compare_forecast_dates(date1, date2)
compare_forecast_dates(db, d1, d2) ==
  IF db.t = "null"
  THEN Raise("AttributeError")
  ELSE LET closest == get_closest_dates(db.conn, d1, d2)
       IN json_differences(compare_forecast_entries(
            read_forecasts(db.conn, closest[1], closest[2]), closest[1], closest[2]))

CompareForecastDates ==
  /\ \E d1 \in Days, d2 \in Days :
       resp' = [op |-> "compare_forecast_dates",
                returned |-> compare_forecast_dates(mcp_config_db, strftime(d1), strftime(d2))]
  /\ UNCHANGED <<store, today, writers, hashseed, df, call, result>>

Next ==
  \/ Tick
  \/ \E w \in Writers : JobCheck(w)
  \/ \E w \in Writers : JobInsert(w)
  \/ GetForecast
  \/ CompareForecastDates

\* Two snapshot jobs that nothing serializes, and the readers.
Spec == Init /\ [][Next]_vars

\* app_run of update_history.py as one step: the test and the insert of a job
\* that runs alone
AppRun ==
  /\ \A w \in Writers : writers[w].pc = "idle"
  /\ \E json_data \in Payloads :
       LET date_str == strftime(today)
       IN IF ~record_exists(store, date_str)
          THEN /\ Len(store) < MaxRows
               /\ store' = insert_record(store, date_str, json_data)
               /\ resp' = [op |-> "app_run", date |-> date_str, inserted |-> TRUE]
          ELSE /\ store' = store
               /\ resp' = [op |-> "app_run", date |-> date_str, inserted |-> FALSE]
  /\ UNCHANGED <<today, writers, hashseed, df, call, result>>

NextSerial ==
  \/ Tick
  \/ AppRun
  \/ GetForecast
  \/ CompareForecastDates

\* The snapshot jobs run one at a time (the single-writer assumption).
SpecSerial == Init /\ [][NextSerial]_vars

-----------------------------------------------------------------------------
(* The diff engine under test: compare_forecast_entries applied to         *)
(* forecasts drawn from the families below.                                *)

\* the records of one composite key and of a second one, as the matching and
\* the skip rules tell them apart
DiffFamily ==
  << OppAX,
     SetItem(OppAX, s_id, Num(2)),
     SetItem(OppAX, s_TotalValue, Str(s_0)),
     SetItem(SetItem(OppAX, s_Start, Str(<<" ">>)), s_Duration, NaN),
     SetItem(SetItem(OppAX, s_TotalValue, Str(<<"1", "5", "0">>)), s_id, Num(2)),
     OppBY,
     SetItem(OppBY, s_TotalValue, Str(s_0)) >>

\* records with a list of two elements, with fields named as the keys of a
\* changed leaf, without any field, without a Project Name, and with neither
\* a Client nor a Project Name
OddFamily ==
  << OppAX,
     OppBY,
     SetItem(OppAX, <<"T", "a", "g", "s">>, List(<<Str(<<"a">>), Str(<<"b">>)>>)),
     SetItem(SetItem(OppAX, s_oldest, Str(<<"a">>)), s_newest, Str(<<"b">>)),
     MkDict(<<>>),
     Dict([k \in DOMAIN OppAX.d \ {s_ProjectName} |-> OppAX.d[k]]),
     Dict([k \in DOMAIN OppAX.d \ {s_Client, s_ProjectName} |-> OppAX.d[k]]) >>

\* records with fields the exclusion policy names, at the top and nested
ExclusionFamily ==
  LET FooId == <<"F", "o", "o", "I", "d">>
      bar_id == <<"b", "a", "r", "_", "i", "d">>
      PCC == <<"P", "C", "C">>
      Meta == <<"M", "e", "t", "a">>
      Items == <<"I", "t", "e", "m", "s">>
      note == <<"n", "o", "t", "e">>
      flat(n) == SetItem(SetItem(SetItem(OppAX, FooId, Num(n)), bar_id, Num(n)),
                         PCC, Num(n))
      inner(n, text) == MkDict(<< <<FooId, Num(n)>>, <<bar_id, Num(n)>>,
                                  <<note, Str(text)>> >>)
  IN << flat(1), flat(2),
        SetItem(OppAX, Meta, inner(1, <<"a">>)),
        SetItem(OppAX, Meta, inner(2, <<"a">>)),
        SetItem(OppAX, Items, List(<<inner(1, <<"a">>)>>)),
        SetItem(OppAX, Items, List(<<inner(2, <<"b">>)>>)) >>

\* the two records of the worked example of a gained schedule and a raised total
ExampleFamily ==
  << MkDict(<< <<s_Client, Str(<<"A">>)>>, <<s_ProjectName, Str(<<"X">>)>>,
               <<s_Start, Str(s_empty)>>, <<s_Duration, Str(s_empty)>>,
               <<s_TotalValue, Str(<<"1", "0", "0">>)>> >>),
     MkDict(<< <<s_Client, Str(<<"A">>)>>, <<s_ProjectName, Str(<<"X">>)>>,
               <<s_Start, Str(<<"M", "a", "r", "c", "h">>)>>, <<s_Duration, Str(<<"3">>)>>,
               <<s_TotalValue, Str(<<"1", "5", "0">>)>> >>) >>

\* records that have a field named as one the diff adds to its records
NamedFamily ==
  << OppAX,
     SetItem(OppAX, s_status, Str(<<"O", "p", "e", "n">>)),
     SetItem(OppBY, s_difference_explanation, Num(7)),
     OppBY >>

\* the i-th smallest member of a set of indices
Nth(I, i) == CHOOSE x \in I : Cardinality({y \in I : y < x}) = i - 1

\* the lists of at most MaxOpps records of a family, in the family's order
Forecasts(family) ==
  { Forecast([i \in 1..Cardinality(I) |-> family[Nth(I, i)]]) :
      I \in {J \in SUBSET DOMAIN family : Cardinality(J) <= MaxOpps} }

Date1 == Str(strftime(1))
Date2 == Str(strftime(2))

DiffCall(dat, d1, d2) ==
  [fn |-> "compare_forecast_entries", data |-> dat, date1 |-> d1, date2 |-> d2]

\* two forecasts read for two dates; one forecast read for both sides (the two
\* requested dates resolved to the same one); one side that resolved to None
DiffCalls(family) ==
  {DiffCall((Date1 :> a) @@ (Date2 :> b), Date1, Date2) :
      a \in Forecasts(family), b \in Forecasts(family)}
  \cup {DiffCall((Date1 :> a), Date1, Date1) : a \in Forecasts(family)}
  \cup {DiffCall((Date1 :> a), Date1, Null) : a \in Forecasts(family)}
  \cup {DiffCall((Date2 :> a), Null, Date2) : a \in Forecasts(family)}

\* records of one composite key whose Start and Duration are empty, each in
\* another way, and one with a schedule
ScheduleFamily ==
  << OppAX,
     SetItem(Dict([k \in DOMAIN OppAX.d \ {s_Start} |-> OppAX.d[k]]), s_Duration, List(<<>>)),
     SetItem(SetItem(OppAX, s_Start, Str(s_empty)), s_Duration, MkDict(<<>>)),
     SetItem(SetItem(OppAX, s_Start, Null), s_Duration, Str(<<"\t", " ", "\n">>)),
     SetItem(SetItem(OppBY, s_Start, NaN), s_Duration, Null) >>

\* a snapshot stored without its Opportunities list, against one that has it
SchemaCalls ==
  LET listless == MkDict(<< <<<<"P", "r", "o", "j", "e", "c", "t", "s">>, List(<<OppAX>>)>> >>)
  IN { DiffCall((Date1 :> listless) @@ (Date2 :> Forecast(<<OppAX>>)), Date1, Date2),
       DiffCall((Date1 :> Forecast(<<OppAX>>)) @@ (Date2 :> listless), Date1, Date2) }

InitDiff ==
  /\ store = <<>>
  /\ today = 1
  /\ writers = [w \in Writers |-> Idle]
  /\ resp = NoResp
  /\ hashseed \in BOOLEAN
  /\ df = Null
  /\ call \in DiffCalls(DiffFamily) \cup DiffCalls(OddFamily)
             \cup DiffCalls(ExclusionFamily) \cup DiffCalls(ExampleFamily)
             \cup DiffCalls(NamedFamily) \cup DiffCalls(ScheduleFamily)
             \cup SchemaCalls
  /\ result = Null

CompareForecastEntries ==
  /\ call.fn = "compare_forecast_entries"
  /\ result = Null
  /\ result' = compare_forecast_entries(call.data, call.date1, call.date2)
  /\ UNCHANGED <<store, today, writers, resp, hashseed, df, call>>

SpecDiff == InitDiff /\ [][CompareForecastEntries]_vars

-----------------------------------------------------------------------------
(* deep_annotate under test, on one field.                                 *)

\* the integers among the field values under test run from 0 to MaxNum
MaxNum == 2

LeafValues ==
  { Null, NaN, Str(s_empty), Str(<<" ">>),
    Str(<<"M", "a", "r", "c", "h">>), Str(<<"A", "p", "r", "i", "l">>),
    List(<<>>), MkDict(<<>>), List(<<Null>>), List(<<Num(1), Num(2)>>),
    MkDict(<< <<<<"n">>, Num(1)>> >>) }
  \cup {Num(n) : n \in 0..MaxNum}

LeafKeys == {Str(s_Start), Str(s_Duration), Str(<<"S", "t", "a", "t", "u", "s">>), Null}

InitLeaf ==
  /\ store = <<>>
  /\ today = 1
  /\ writers = [w \in Writers |-> Idle]
  /\ resp = NoResp
  /\ hashseed = TRUE
  /\ df = Null
  /\ call \in {[fn |-> "deep_annotate", o1 |-> a, o2 |-> b, field_key |-> k] :
                 a \in LeafValues, b \in LeafValues, k \in LeafKeys}
  /\ result = Null

DeepAnnotate ==
  /\ call.fn = "deep_annotate"
  /\ result = Null
  /\ result' = deep_annotate(call.o1, call.o2, call.field_key)
  /\ UNCHANGED <<store, today, writers, resp, hashseed, df, call>>

SpecLeaf == InitLeaf /\ [][DeepAnnotate]_vars

-----------------------------------------------------------------------------
(* Claims on the store and the resolver.                                   *)

\* the days that have a row
StoredDays == {d \in Days : \E i \in DOMAIN store : store[i].fdate = strftime(d)}

MaxOf(S) == CHOOSE x \in S : \A y \in S : y <= x
MinOf(S) == CHOOSE x \in S : \A y \in S : x <= y

\* what the resolver owes a request for the days k1 and k2
Owed(k1, k2) ==
  LET back == {d \in StoredDays : d <= k1}
      forward == {d \in StoredDays : d >= k2}
  IN << IF back = {} THEN Null ELSE Str(strftime(MaxOf(back))),
        IF forward = {} THEN Null ELSE Str(strftime(MinOf(forward))) >>

\* C1: get_closest_dates returns the latest stored date on or before date1 and
\* the earliest stored date on or after date2; a side is None exactly when no
\* stored date lies on its side, and a date it returns is a stored one.
C1_ClosestDates ==
  resp.op = "get_forecast" =>
    \A k1 \in Days, k2 \in Days :
      (resp.date1 = strftime(k1) /\ resp.date2 = strftime(k2)) =>
        /\ resp.closest = Owed(k1, k2)
        /\ \A side \in {1, 2} :
             resp.closest[side] # Null =>
               \E i \in DOMAIN store : store[i].fdate = resp.closest[side].s

\* a request between two stored days, neither of which it names
C1_Witness ==
  /\ resp.op = "get_forecast"
  /\ resp.date1 = strftime(2)
  /\ resp.date2 = strftime(2)
  /\ resp.closest = <<Str(strftime(1)), Str(strftime(3))>>

\* C2 (as claimed): insert_record for a date that has a row raises
\* DuplicateDateError and leaves the table as it was.
C2_DuplicateRejected ==
  [][(resp'.op = "insert_record"
        /\ \E i \in DOMAIN store : store[i].fdate = resp'.date)
      => (store' = store /\ resp'.raised = "DuplicateDateError")]_vars

\* C3: the table only grows: every step keeps every row as it is, so every
\* stored date stays stored and reads back the forecast first written for it.
C3_AppendOnly ==
  [][/\ Len(store') >= Len(store)
     /\ \A i \in DOMAIN store :
          /\ store'[i] = store[i]
          /\ SelectByDate(store', Str(store[i].fdate)) # <<>>
          /\ Head(SelectByDate(store', Str(store[i].fdate))).json_data
               = Head(SelectByDate(store, Str(store[i].fdate))).json_data]_vars

\* a date written twice, with two forecasts, by two jobs
C3_Witness ==
  /\ resp.op = "insert_record"
  /\ Len(store) = 2
  /\ store[1].fdate = store[2].fdate
  /\ store[1].json_data # store[2].json_data

OnePerDate == \A i, j \in DOMAIN store : store[i].fdate = store[j].fdate => i = j

\* C4: with the jobs run one at a time the table never holds two rows of one
\* date, and a run on a date that has a row leaves the table as it was.
C4_SerialOnePerDate ==
  /\ []OnePerDate
  /\ [][(resp'.op = "app_run" /\ \E i \in DOMAIN store : store[i].fdate = resp'.date)
         => store' = store]_vars

\* a second run on a day that has its row, with an earlier day stored too
C4_Witness ==
  /\ resp.op = "app_run"
  /\ ~resp.inserted
  /\ Len(store) = 2

-----------------------------------------------------------------------------
(* Claims on the diff engine.                                              *)

OlderOpps == Opportunities(call.data, call.date1)
NewerOpps == Opportunities(call.data, call.date2)

\* a record is told by its Client and its Project Name
ClientProject(opp) == <<Get(opp, s_Client, Null), Get(opp, s_ProjectName, Null)>>

\* the same of a record of the result, where a field is either the raw value
\* (New, Deleted) or the leaf {"value": v}
Unwrap(v) == IF v.t = "dict" /\ DOMAIN v.d = {s_value} THEN v.d[s_value] ELSE v

OutClientProject(rec) ==
  <<Unwrap(Get(rec, s_Client, Null)), Unwrap(Get(rec, s_ProjectName, Null))>>

StatusOf(rec) == Get(rec, s_status, Null)

Told(opps) == {ClientProject(opps[i]) : i \in DOMAIN opps}

\* the record of a list that stands for cp: the last one
LastOf(opps, cp) ==
  opps[MaxOf({i \in DOMAIN opps : ClientProject(opps[i]) = cp})]

\* the records of the result told by cp
OutOf(cp) == {i \in DOMAIN result.l : OutClientProject(result.l[i]) = cp}

\* emptiness of a scalar or of a container without members
Empty(v) ==
  \/ v.t \in {"null", "nan"}
  \/ v.t = "str" /\ \A i \in DOMAIN v.s : v.s[i] \in {" ", "\t", "\n", "\r"}
  \/ v.t = "list" /\ v.l = <<>>
  \/ v.t = "dict" /\ DOMAIN v.d = {}

TotalIsZero(opp) == Get(opp, s_TotalValue, Null) = Str(<<"0">>)

NoSchedule(opp) == Empty(Get(opp, s_Start, Null)) /\ Empty(Get(opp, s_Duration, Null))

\* a value in which one mapping has a field oldest and a field newest
RECURSIVE NamesALeaf(_)
NamesALeaf(v) ==
  CASE v.t = "dict" ->
         \/ {s_oldest, s_newest} \subseteq DOMAIN v.d
         \/ \E k \in DOMAIN v.d : NamesALeaf(v.d[k])
    [] v.t = "list" -> \E i \in DOMAIN v.l : NamesALeaf(v.l[i])
    [] OTHER -> FALSE

SameSides == OlderOpps = NewerOpps

\* the records of a snapshot that a diff with itself keeps
SelfKept ==
  {cp \in Told(OlderOpps) :
     LET opp == LastOf(OlderOpps, cp)
     IN DOMAIN opp.d # {} /\ ~TotalIsZero(opp) /\ ~NoSchedule(opp)}

C6_ZeroTotalSkipped ==
  result.t = "list" =>
    \A cp \in Told(OlderOpps) :
      TotalIsZero(LastOf(OlderOpps, cp)) => OutOf(cp) = {}

\* the older record has Total Value "0", the newer one of the same key another
\* total, and the result holds only the record of another key
C6_Witness ==
  /\ result.t = "list"
  /\ Len(result.l) = 1
  /\ \E cp \in Told(OlderOpps) \cap Told(NewerOpps) :
       /\ TotalIsZero(LastOf(OlderOpps, cp))
       /\ ~TotalIsZero(LastOf(NewerOpps, cp))
       /\ OutClientProject(result.l[1]) # cp

\* a record without its id
WithoutId(opp) == Dict([k \in DOMAIN opp.d \ {s_id} |-> opp.d[k]])

\* the keys that both snapshots hold with two different ids
Renumbered ==
  {cp \in Told(OlderOpps) \cap Told(NewerOpps) :
     LET o == LastOf(OlderOpps, cp)
         n == LastOf(NewerOpps, cp)
     IN /\ s_id \in DOMAIN o.d /\ s_id \in DOMAIN n.d
        /\ o.d[s_id] # n.d[s_id]}

\* C7: two records of the same Client and Project Name with two different ids
\* are diffed as one record: never a New and a Deleted one, at most one record
\* of the result, Modified or Unchanged and carrying the newer id, present
\* unless a skip rule or the filter of unchanged records dropped it, and not
\* Modified when the id is all that changed.
C7_MatchedByClientProject ==
  result.t = "list" =>
    \A cp \in Renumbered :
      LET o == LastOf(OlderOpps, cp)
          n == LastOf(NewerOpps, cp)
      IN /\ Cardinality(OutOf(cp)) <= 1
         /\ \A i \in OutOf(cp) :
              /\ StatusOf(result.l[i]) \in {Str(s_Modified), Str(s_Unchanged)}
              /\ Get(result.l[i], s_id, Null) = n.d[s_id]
              /\ WithoutId(o) = WithoutId(n) /\ ~NamesALeaf(o)
                   => StatusOf(result.l[i]) = Str(s_Unchanged)
         /\ OutOf(cp) = {} =>
              \/ TotalIsZero(o)
              \/ NoSchedule(o) /\ NoSchedule(n)
              \/ \E i \in DOMAIN result.l : StatusOf(result.l[i]) # Str(s_Unchanged)

\* a record whose id alone changed, reported Unchanged under the newer id
C7_Witness ==
  /\ result.t = "list"
  /\ \E cp \in Renumbered :
       /\ WithoutId(LastOf(OlderOpps, cp)) = WithoutId(LastOf(NewerOpps, cp))
       /\ \E i \in OutOf(cp) :
            /\ StatusOf(result.l[i]) = Str(s_Unchanged)
            /\ Get(result.l[i], s_id, Null) = LastOf(NewerOpps, cp).d[s_id]
            /\ Get(result.l[i], s_id, Null) # LastOf(OlderOpps, cp).d[s_id]

\* a value that holds, at any depth, a field the exclusion policy names
RECURSIVE NamesExcluded(_)
NamesExcluded(v) ==
  CASE v.t = "dict" ->
         \E k \in DOMAIN v.d : should_exclude_field(k) \/ NamesExcluded(v.d[k])
    [] v.t = "list" -> \E i \in DOMAIN v.l : NamesExcluded(v.l[i])
    [] OTHER -> FALSE

\* C8 (as claimed): no record of the result holds, at any depth, a field whose
\* name ends in _id or Id or is on the deny list, but for the id that every
\* record of the result is given.
C8_NoExcludedField ==
  result.t = "list" =>
    \A i \in DOMAIN result.l :
      \A k \in DOMAIN result.l[i].d :
        /\ k # s_id => ~should_exclude_field(k)
        /\ ~NamesExcluded(result.l[i].d[k])

ChangedLeaf(o, n) ==
  MkDict(<< <<s_oldest, o>>, <<s_newest, n>>,
            <<s_difference,
              IF o.t = "num" /\ n.t = "num" THEN Num(n.n - o.n) ELSE n>> >>)

\* C9 (as claimed): for the field Start or Duration deep_annotate returns {"value": None}
\* when both values are empty, the changed leaf with the newer value as its
\* difference when only the older is empty, {"value": o} when the two are equal
\* or only the newer is empty, and the leaf of two unequal values otherwise.
C9_ScheduleRule ==
  (result # Null /\ call.field_key \in {Str(s_Start), Str(s_Duration)}) =>
    LET o == call.o1
        n == call.o2
    IN result =
         IF Empty(o) /\ Empty(n) THEN MkDict(<< <<s_value, Null>> >>)
         ELSE IF Empty(o)
         THEN MkDict(<< <<s_oldest, o>>, <<s_newest, n>>, <<s_difference, n>> >>)
         ELSE IF o = n \/ Empty(n) THEN MkDict(<< <<s_value, o>> >>)
         ELSE ChangedLeaf(o, n)

-----------------------------------------------------------------------------
(* The diff request under test: compare_forecast_dates on a table, with    *)
(* mcp_config.db as the server leaves it or bound to the table.            *)

\* the tables the snapshot jobs can leave: rows in the order of their days
Tables ==
  LET Rows == {[fdate |-> strftime(d), json_data |-> j] : d \in Days, j \in Payloads}
  IN UNION {{q \in [1..n -> Rows] :
               \A i \in 1..n, j \in 1..n : i < j => TextLE(q[i].fdate, q[j].fdate)} :
            n \in 0..MaxRows}

Connection(db) == [t |-> "conn", conn |-> db]

InitRequest ==
  /\ store \in Tables
  /\ today = 1
  /\ writers = [w \in Writers |-> Idle]
  /\ resp = NoResp
  /\ hashseed = TRUE
  /\ df = Null
  /\ call \in {[fn |-> "compare_forecast_dates", connected |-> c,
                date1 |-> strftime(d1), date2 |-> strftime(d2)] :
                 c \in BOOLEAN, d1 \in Days, d2 \in Days}
  /\ result = Null

RequestDiff ==
  /\ call.fn = "compare_forecast_dates"
  /\ result = Null
  /\ result' = compare_forecast_dates(
                 IF call.connected THEN Connection(store) ELSE mcp_config_db,
                 call.date1, call.date2)
  /\ UNCHANGED <<store, today, writers, resp, hashseed, df, call>>

SpecRequest == InitRequest /\ [][RequestDiff]_vars

\* the two dates a request resolves to
Resolved == get_closest_dates(store, call.date1, call.date2)

\* C11 (as claimed): a diff request one of whose dates resolves to no stored
\* snapshot returns an error text and no diff, and no record of the snapshot
\* that was found is reported New or Deleted.
C11_UnresolvedDateIsError ==
  (result # Null /\ call.connected /\ (Resolved[1] = Null \/ Resolved[2] = Null)) =>
    /\ result.t = "error"
    /\ ~(/\ result.t = "json"
         /\ \E i \in DOMAIN result.differences.l :
              Get(result.differences.l[i], s_status, Null)
                \in {Str(s_New), Str(s_Deleted)})

\* C14 (as claimed): a call of compare_forecast_dates in a state the server
\* reaches returns a payload and raises nothing.
C14_RequestNeverRaises ==
  resp.op = "compare_forecast_dates" => ~IsRaise(resp.returned)

-----------------------------------------------------------------------------
(* Claims on the explanation and on the records of one side.               *)

RECURSIVE SplitLines(_)
\* the lines of a text joined with "\n"
SplitLines(text) ==
  IF \E i \in DOMAIN text : text[i] = "\n"
  THEN LET i == MinOf({j \in DOMAIN text : text[j] = "\n"})
       IN <<SubSeq(text, 1, i - 1)>> \o SplitLines(SubSeq(text, i + 1, Len(text)))
  ELSE <<text>>

\* the lines of the explanation of a record of the result
LinesOf(rec) ==
  LET lines == SplitLines(Get(rec, s_difference_explanation, Str(s_empty)).s)
  IN {lines[i] : i \in DOMAIN lines}

IsExample == OlderOpps = <<ExampleFamily[1]>> /\ NewerOpps = <<ExampleFamily[2]>>

StartLine ==
  s_Start \o <<" changed from '">> \o <<"' to '">> \o <<"M", "a", "r", "c", "h">> \o <<"'">>

DurationLine ==
  s_Duration \o <<" changed from '">> \o <<"' to '">> \o <<"3">> \o <<"'">>

\* C12 (as claimed): the example yields one Modified record with a line for
\* Start, a line for Duration and the line
\* "Total Value increased from 100 to 150 (+50)".
C12_ExampleIncreased ==
  (result # Null /\ IsExample) =>
    /\ result.t = "list"
    /\ Len(result.l) = 1
    /\ StatusOf(result.l[1]) = Str(s_Modified)
    /\ { StartLine, DurationLine,
         s_TotalValue \o <<" increased from ">> \o <<"1", "0", "0">> \o <<" to ">>
           \o <<"1", "5", "0">> \o <<" (+">> \o <<"5", "0">> \o <<")">> }
         \subseteq LinesOf(result.l[1])

\* C12 (amended): the example yields one Modified record with a line for
\* Start, a line for Duration and the line
\* "Total Value changed from '100' to '150'".
C12_ExampleChanged ==
  (result # Null /\ IsExample) =>
    /\ result.t = "list"
    /\ Len(result.l) = 1
    /\ StatusOf(result.l[1]) = Str(s_Modified)
    /\ { StartLine, DurationLine,
         s_TotalValue \o <<" changed from '">> \o <<"1", "0", "0">> \o <<"' to '">>
           \o <<"1", "5", "0">> \o <<"'">> }
         \subseteq LinesOf(result.l[1])

\* the example diffed, its explanation of three lines
C12_Witness ==
  /\ result # Null
  /\ IsExample
  /\ Cardinality(LinesOf(result.l[1])) = 3

\* a snapshot that was read and has no Opportunities list
Listless(date) == date \in DOMAIN call.data /\ s_Opportunities \notin DOMAIN call.data[date].d

\* a record without its Client or its Project Name
Nameless(opp) == s_Client \notin DOMAIN opp.d \/ s_ProjectName \notin DOMAIN opp.d

\* C13 (as claimed): a diff of a snapshot without its Opportunities list, or of
\* a record without its Client or its Project Name, ends in
\* SchemaMismatchError.
C13_SchemaMismatchSurfaced ==
  (/\ result # Null
   /\ \/ Listless(call.date1) \/ Listless(call.date2)
      \/ \E i \in DOMAIN OlderOpps : Nameless(OlderOpps[i])
      \/ \E i \in DOMAIN NewerOpps : Nameless(NewerOpps[i]))
  => result = Raise("SchemaMismatchError")

\* sub occurs in text
Contains(text, sub) ==
  \E i \in 1..(Len(text) - Len(sub) + 1) : SubSeq(text, i, i + Len(sub) - 1) = sub

Added == {s_id, s_status, s_difference_explanation}

\* rec is the record of the result for the record opp of one side only: it
\* has the status, every field of opp that is not excluded (and not named as
\* one the diff adds), the id of opp, and an explanation that names the dates
OneSided(rec, opp, status, dates) ==
  /\ StatusOf(rec) = Str(status)
  /\ \A k \in DOMAIN opp.d \ Added :
       ~should_exclude_field(k) => k \in DOMAIN rec.d /\ rec.d[k] = opp.d[k]
  /\ Get(rec, s_id, Null) = Get(opp, s_id, Str(s_empty))
  /\ Get(rec, s_difference_explanation, Null).t = "str"
  /\ \A d \in dates :
       d # Null => Contains(Get(rec, s_difference_explanation, Null).s, d.s)

\* C15 (as claimed): a key of the older snapshot only, not dropped by skip
\* rule 1, has exactly one record in the result, Deleted; a key of the newer
\* snapshot only has exactly one, New; the record carries the top-level fields
\* that are not excluded, the id, and an explanation naming the dates.
C15_OneSidedRecords ==
  result.t = "list" =>
    /\ \A cp \in Told(OlderOpps) \ Told(NewerOpps) :
         ~TotalIsZero(LastOf(OlderOpps, cp)) =>
           /\ Cardinality(OutOf(cp)) = 1
           /\ \A i \in OutOf(cp) :
                OneSided(result.l[i], LastOf(OlderOpps, cp), s_Deleted,
                         {call.date1, call.date2})
    /\ \A cp \in Told(NewerOpps) \ Told(OlderOpps) :
         /\ Cardinality(OutOf(cp)) = 1
         /\ \A i \in OutOf(cp) :
              OneSided(result.l[i], LastOf(NewerOpps, cp), s_New, {call.date2})

\* C16 (as claimed): every record of the result has an id and a status among
\* New, Deleted, Modified and Unchanged, and with any of the first three an
\* explanation that is a string.
C16_RecordShape ==
  result.t = "list" =>
    \A i \in DOMAIN result.l :
      /\ s_id \in DOMAIN result.l[i].d
      /\ StatusOf(result.l[i])
           \in {Str(s_New), Str(s_Deleted), Str(s_Modified), Str(s_Unchanged)}
      /\ StatusOf(result.l[i]) # Str(s_Unchanged) =>
           Get(result.l[i], s_difference_explanation, Null).t = "str"

\* the composite keys both snapshots hold, and those only one holds
InBoth == Told(OlderOpps) \cap Told(NewerOpps)

\* C19: when the diff returns, a composite key that both snapshots hold and
\* whose Start and Duration are empty (null or absent, blank or whitespace
\* only, a container without members, NaN) in the older and in the newer
\* record has no record in the result; a record that only one snapshot holds
\* is reported although its Start and Duration are empty (the older one
\* unless its Total Value is "0").
C19_SkipRule2 ==
  result.t = "list" =>
    /\ \A cp \in InBoth :
         (NoSchedule(LastOf(OlderOpps, cp)) /\ NoSchedule(LastOf(NewerOpps, cp)))
           => OutOf(cp) = {}
    /\ \A cp \in Told(NewerOpps) \ Told(OlderOpps) :
         (NoSchedule(LastOf(NewerOpps, cp)) /\ DOMAIN LastOf(NewerOpps, cp).d # {})
           => OutOf(cp) # {}
    /\ \A cp \in Told(OlderOpps) \ Told(NewerOpps) :
         (/\ NoSchedule(LastOf(OlderOpps, cp)) /\ DOMAIN LastOf(OlderOpps, cp).d # {}
          /\ ~TotalIsZero(LastOf(OlderOpps, cp)))
           => OutOf(cp) # {}

\* a diff that dropped a key of both snapshots for its empty schedule, the
\* older record's Total Value not being "0", and reported another record
C19_Witness ==
  /\ result.t = "list"
  /\ result.l # <<>>
  /\ \E cp \in InBoth :
       /\ NoSchedule(LastOf(OlderOpps, cp)) /\ NoSchedule(LastOf(NewerOpps, cp))
       /\ LastOf(OlderOpps, cp) # LastOf(NewerOpps, cp)
       /\ ~TotalIsZero(LastOf(OlderOpps, cp))
       /\ OutOf(cp) = {}

Scalar(v) == v.t \in {"num", "nan", "str"}

\* the changed leaf of two values, NaN counting as a number
StandardLeaf(o, n) ==
  MkDict(<< <<s_oldest, o>>, <<s_newest, n>>,
            <<s_difference,
              IF o.t \in {"num", "nan"} /\ n.t \in {"num", "nan"}
              THEN (IF o.t = "nan" \/ n.t = "nan" THEN NaN ELSE Num(n.n - o.n))
              ELSE n>> >>)

\* C20 (as claimed): for a field other than Start and Duration deep_annotate
\* returns {"value": None} when both values are empty; else the changed leaf
\* with the newer value as its difference when exactly one value is null;
\* else, of two scalars, {"value": o} when they are equal and the changed leaf
\* with difference n - o (numbers) or n when they are not; and it returns a
\* changed leaf only if the two values differ.
C20_StandardLeafRules ==
  (result # Null /\ call.field_key \notin {Str(s_Start), Str(s_Duration)}) =>
    LET o == call.o1
        n == call.o2
    IN /\ (Empty(o) /\ Empty(n)) => result = MkDict(<< <<s_value, Null>> >>)
       /\ (~(Empty(o) /\ Empty(n)) /\ (o = Null \/ n = Null)) =>
            result = MkDict(<< <<s_oldest, o>>, <<s_newest, n>>, <<s_difference, n>> >>)
       /\ (~(Empty(o) /\ Empty(n)) /\ Scalar(o) /\ Scalar(n)) =>
            result = IF o = n THEN MkDict(<< <<s_value, o>> >>) ELSE StandardLeaf(o, n)
       /\ (result.t = "dict" /\ {s_oldest, s_newest} \subseteq DOMAIN result.d) => o # n
-----------------------------------------------------------------------------
(* The reporting tools over the loaded dataframe                           *)
(* (datawrangler/pandas_functions.py and their wrappers in mcptools.py).   *)
(* A frame is its column names and its rows; a row maps the column names   *)
(* to cell values.  Of the twelve month columns March and June are kept.   *)

\* the column names, the keys of the results and the cell texts
text ==
  [ Status |-> <<"S", "t", "a", "t", "u", "s">>,
    AdB |-> <<"A", "d", "B">>,
    OpportunityOwner |-> <<"O", "p", "p", "o", "r", "t", "u", "n", "i", "t", "y", " ", "O", "w", "n", "e", "r">>,
    ContentOwner |-> <<"C", "o", "n", "t", "e", "n", "t", " ", "O", "w", "n", "e", "r">>,
    Psensitivity |-> <<"P", "s", "e", "n", "s", "i", "t", "i", "v", "i", "t", "y">>,
    PCC |-> <<"P", "C", "C">>,
    PE |-> <<"P", "E">>,
    CPIS |-> <<"C", "P", "I", "S">>,
    CBE |-> <<"C", "B", "E">>,
    Design |-> <<"D", "e", "s", "i", "g", "n">>,
    Tech |-> <<"T", "e", "c", "h">>,
    Others |-> <<"O", "t", "h", "e", "r", "s">>,
    March |-> <<"M", "a", "r", "c", "h">>,
    June |-> <<"J", "u", "n", "e">>,
    All |-> <<"A", "l", "l">>,
    months |-> <<"m", "o", "n", "t", "h", "s">>,
    total |-> <<"t", "o", "t", "a", "l">>,
    forecast |-> <<"f", "o", "r", "e", "c", "a", "s", "t">>,
    weighted_forecast |-> <<"w", "e", "i", "g", "h", "t", "e", "d", "_", "f", "o", "r", "e", "c", "a", "s", "t">>,
    split |-> <<"s", "p", "l", "i", "t">>,
    weighted_split |-> <<"w", "e", "i", "g", "h", "t", "e", "d", "_", "s", "p", "l", "i", "t">>,
    FactoriesSplit |-> <<"F", "a", "c", "t", "o", "r", "i", "e", "s", " ", "S", "p", "l", "i", "t">>,
    Summary |-> <<"S", "u", "m", "m", "a", "r", "y">>,
    TotalProjects |-> <<"T", "o", "t", "a", "l", " ", "p", "r", "o", "j", "e", "c", "t", "s">>,
    TotalValueSum |-> <<"T", "o", "t", "a", "l", " ", "v", "a", "l", "u", "e">>,
    Open |-> <<"O", "p", "e", "n">>,
    Lost |-> <<"L", "o", "s", "t">>,
    April |-> <<"A", "p", "r", "i", "l">>,
    Ann |-> <<"A", "n", "n">>,
    Bob |-> <<"B", "o", "b">>,
    Sales |-> <<"S", "a", "l", "e", "s">> ]

DataFrame(columns, rows) == [t |-> "frame", columns |-> columns, rows |-> rows]

\* df.empty: no rows or no columns
df_empty(frame) == frame.rows = <<>> \/ frame.columns = {}

\* a float64 value, kept as the exact fraction <<numerator, denominator>>
Float(q) == [t |-> "float", q |-> q]

RECURSIVE GCD(_, _)
GCD(a, b) == IF b = 0 THEN a ELSE GCD(b, a % b)

Frac(n, d) == LET g == GCD(n, d) IN <<n \div g, d \div g>>

FracAdd(x, y) == Frac(x[1] * y[2] + y[1] * x[2], x[2] * y[2])

FracMul(x, y) == Frac(x[1] * y[1], x[2] * y[2])

RECURSIVE FracSum(_)
\* Series.sum()
FracSum(q) == IF q = <<>> THEN <<0, 1>> ELSE FracAdd(Head(q), FracSum(Tail(q)))

RECURSIVE ParseDigits(_, _)
ParseDigits(s, acc) ==
  IF s = <<>> THEN acc
  ELSE ParseDigits(Tail(s), 10 * acc
         + (CHOOSE n \in 0..9 : Digit(n) = Head(s)))

\* pd.to_numeric(cell, errors='coerce'): a number, or NaN for what is none
to_numeric(v) ==
  IF v.t = "num" THEN v
  ELSE IF v.t = "str" /\ PyStrip(v.s) # <<>>
          /\ \A i \in DOMAIN PyStrip(v.s) : \E n \in 0..9 : Digit(n) = PyStrip(v.s)[i]
       THEN Num(ParseDigits(PyStrip(v.s), 0))
       ELSE NaN

\* .fillna(0.0)
fillna(v) == IF v.t = "nan" THEN Num(0) ELSE v

\* pd.to_numeric(df[col], errors='coerce') > 0, on one row
Positive(row, col) == to_numeric(row[col]).t = "num" /\ to_numeric(row[col]).n > 0

RECURSIVE Grouped(_)
\* the digits of n >= 0 with a comma before every group of three
Grouped(n) ==
  IF n < 1000 THEN Digits(n)
  ELSE Grouped(n \div 1000)
       \o <<",", Digit((n \div 100) % 10), Digit((n \div 10) % 10), Digit(n % 10)>>

\* f"{int(value):,}": int() drops the fraction
format_number(value) ==
  LET n == IF value.t = "float" THEN value.q[1] \div value.q[2] ELSE value.n
  IN Str(Grouped(n))

RECURSIVE format_values(_)
format_values(obj) ==
  IF obj.t = "dict" THEN Dict([k \in DOMAIN obj.d |-> format_values(obj.d[k])])
  ELSE IF obj.t = "list" THEN List([i \in DOMAIN obj.l |-> format_values(obj.l[i])])
  ELSE IF obj.t \in {"num", "float"} THEN format_number(obj)
  ELSE obj

\* json.dumps(obj, indent=4): the text of the document obj
json_dumps(obj) == [t |-> "json", doc |-> obj]

\* an exception with its message
Exception(exc, msg) == [t |-> "raise", exc |-> exc, msg |-> msg]

split_columns == <<text.PCC, text.PE, text.CPIS, text.CBE, text.Design, text.Tech, text.Others>>

\* the first column of the list the frame lacks, Null when it has them all
FirstMissing(frame, required) ==
  LET missing == {i \in DOMAIN required : required[i] \notin frame.columns}
  IN IF missing = {} THEN Null
     ELSE Str(required[CHOOSE i \in missing : \A j \in missing : i <= j])

Range(q) == {q[i] : i \in DOMAIN q}

\* df[col] = pd.to_numeric(df[col], errors='coerce').fillna(0.0) for the
\* numeric columns: the frame get_forecast leaves behind in mcp_config.df
coerce_numeric(frame, months) ==
  LET numeric_columns == {text.Psensitivity, s_TotalValue} \cup Range(split_columns) \cup Range(months)
  IN DataFrame(frame.columns,
       [i \in DOMAIN frame.rows |->
          [c \in DOMAIN frame.rows[i] |->
             IF c \in numeric_columns THEN fillna(to_numeric(frame.rows[i][c]))
             ELSE frame.rows[i][c]]])

\* one pass of the loop over months: the entry of the month
month_entry(rows, month) ==
  LET ratio(col) == [i \in DOMAIN rows |->
                       IF rows[i][s_TotalValue].n = 0 THEN <<0, 1>>
                       ELSE Frac(rows[i][col].n, rows[i][s_TotalValue].n)]
      \* temp_ratio holds the last split column's ratio when the first loop ends
      temp_ratio == ratio(split_columns[Len(split_columns)])
      weighted_value == [i \in DOMAIN rows |-> rows[i][month].n * rows[i][text.Psensitivity].n]
  IN [forecast |-> FracSum([i \in DOMAIN rows |-> <<rows[i][month].n, 1>>]),
      weighted_forecast |-> FracSum([i \in DOMAIN rows |-> <<weighted_value[i], 1>>]),
      split |-> [col \in Range(split_columns) |->
                   FracSum([i \in DOMAIN rows |->
                              FracMul(ratio(col)[i], <<rows[i][month].n, 1>>)])],
      weighted_split |-> [col \in Range(split_columns) |->
                   FracSum([i \in DOMAIN rows |->
                              FracMul(temp_ratio[i], <<weighted_value[i], 1>>)])]]

\* the entry as the result holds it
entry_dict(e) ==
  MkDict(<< <<text.forecast, Float(e.forecast)>>,
            <<text.weighted_forecast, Float(e.weighted_forecast)>>,
            <<text.split, Dict([col \in DOMAIN e.split |-> Float(e.split[col])])>>,
            <<text.weighted_split, Dict([col \in DOMAIN e.weighted_split |->
                                         Float(e.weighted_split[col])])>> >>)

RECURSIVE total_entry(_, _)
\* result["total"] after the loop: the sums over the months as listed
total_entry(rows, months) ==
  IF months = <<>>
  THEN [forecast |-> <<0, 1>>, weighted_forecast |-> <<0, 1>>,
        split |-> [col \in Range(split_columns) |-> <<0, 1>>],
        weighted_split |-> [col \in Range(split_columns) |-> <<0, 1>>]]
  ELSE LET e == month_entry(rows, Head(months))
           rest == total_entry(rows, Tail(months))
       IN [forecast |-> FracAdd(e.forecast, rest.forecast),
           weighted_forecast |-> FracAdd(e.weighted_forecast, rest.weighted_forecast),
           split |-> [col \in Range(split_columns) |-> FracAdd(e.split[col], rest.split[col])],
           weighted_split |-> [col \in Range(split_columns) |->
                                 FracAdd(e.weighted_split[col], rest.weighted_split[col])]]

\* datawrangler.pandas_functions.get_forecast(df, months, factory): None or an empty list for months
\* passes for `not months`
datawrangler_get_forecast(frame, months, factory) ==
  IF df_empty(frame) \/ months = <<>>
  THEN json_dumps(format_values(
         MkDict(<< <<text.months, MkDict(<<>>)>>,
                   <<text.total, MkDict(<< <<text.forecast, Num(0)>>,
                                        <<text.weighted_forecast, Num(0)>>,
                                        <<text.split, MkDict(<<>>)>>,
                                        <<text.weighted_split, MkDict(<<>>)>> >>)>> >>)))
  ELSE LET required_columns ==
             <<s_id, s_Client, s_ProjectName, text.Status, text.AdB, text.OpportunityOwner,
               text.ContentOwner, s_Start, s_Duration, text.Psensitivity, s_TotalValue,
               text.PCC, text.PE, text.CPIS, text.CBE, text.Design, text.Tech,
               text.Others>> \o months
           missing == FirstMissing(frame, required_columns)
       IN IF missing # Null
          THEN Exception("ValueError", <<"Missing required column: ">> \o missing.s)
          ELSE IF factory # text.All /\ factory \notin frame.columns
          THEN Exception("KeyError", <<"'">> \o factory \o <<"'">>)
          ELSE
            LET numeric == coerce_numeric(frame, months)
                in_factory(row) == Positive(row, factory)
                rows == IF factory # text.All THEN DataFrame(numeric.columns, SelectSeq(numeric.rows, in_factory)).rows ELSE numeric.rows
            IN json_dumps(format_values(
                 MkDict(<< <<text.months, Dict([m \in Range(months) |->
                                               entry_dict(month_entry(rows, m))])>>,
                           <<text.total, entry_dict(total_entry(rows, months))>> >>)))

\* mcp_config.df once get_forecast has run on it: the columns are coerced
\* in place before the factory is looked up
get_forecast_frame(frame, months) ==
  LET returned == datawrangler_get_forecast(frame, months, text.All)
  IN IF df_empty(frame) \/ months = <<>>
        \/ (IsRaise(returned) /\ returned.exc = "ValueError")
     THEN frame
     ELSE coerce_numeric(frame, months)

\* try: f"{float(value):,.0f}" except (ValueError, TypeError): "0"
format_float(value) ==
  IF value.t = "nan" THEN Str(s_nan)
  ELSE IF to_numeric(value).t = "num" THEN Str(Grouped(to_numeric(value).n))
  ELSE Str(s_0)

\* the dictionary built from one row
opportunity_of(frame, row) ==
  LET columns_to_display ==
        <<s_id, s_Client, s_ProjectName, text.Status, text.AdB, text.OpportunityOwner,
          text.ContentOwner, s_Start, s_Duration, text.Psensitivity, s_TotalValue,
          text.PCC, text.PE, text.CPIS, text.CBE, text.Design, text.Tech, text.Others>>
      float_columns ==
        {text.PCC, text.PE, text.CPIS, text.CBE, text.Design, text.Tech, text.Others,
         text.Psensitivity, s_TotalValue}
      value(col) == LET v == IF col \in frame.columns THEN row[col] ELSE Null
                    IN IF col \in float_columns /\ v # Null THEN format_float(v) ELSE v
      shown == Range(columns_to_display) \ Range(split_columns)
  IN Dict([col \in shown \cup {text.FactoriesSplit} |->
             IF col = text.FactoriesSplit
             THEN Dict([c \in Range(split_columns) |-> value(c)])
             ELSE value(col)])

\* the row masks of the two sensitivity filters (lower: the minimum): the
\* True/False of the comparison is compared with the bound once more
sensitivity_mask(row, from_sensitivity, to_sensitivity, lower) ==
  LET cell == row[text.Psensitivity]
      \* series >= x and series <= x on a cell of a float64 column: False on NaN
      at_least == cell.t = "num" /\ cell.n >= from_sensitivity
      at_most == cell.t = "num" /\ cell.n <= to_sensitivity
      \* what True and False count for against a number
      number(b) == IF b THEN 1 ELSE 0
  IN IF lower THEN number(at_least) >= from_sensitivity
     ELSE number(at_most) <= to_sensitivity

filter_opportunities(frame, month, content_owner, factory, from_sensitivity, to_sensitivity, status) ==
  LET required_columns ==
        <<s_id, s_Client, s_ProjectName, s_Duration, text.PCC, text.PE, text.CPIS,
          text.CBE, text.Design, text.Tech, text.Others, s_Start, text.ContentOwner,
          text.Status, s_TotalValue, text.Psensitivity>>
      missing == FirstMissing(frame, required_columns)
      in_month(row) == row[s_Start] = Str(month)
      of_owner(row) == row[text.ContentOwner] = Str(content_owner)
      in_status(row) == row[text.Status] = Str(status)
      in_factory(row) == Positive(row, factory)
      above(row) == sensitivity_mask(row, from_sensitivity, to_sensitivity, TRUE)
      below(row) == sensitivity_mask(row, from_sensitivity, to_sensitivity, FALSE)
      f1 == IF month # text.All THEN DataFrame(frame.columns, SelectSeq(frame.rows, in_month)) ELSE frame
      f2 == IF content_owner # text.All THEN DataFrame(f1.columns, SelectSeq(f1.rows, of_owner)) ELSE f1
      f3 == IF status # text.All THEN DataFrame(f2.columns, SelectSeq(f2.rows, in_status)) ELSE f2
      f4 == IF factory # text.All THEN DataFrame(f3.columns, SelectSeq(f3.rows, in_factory)) ELSE f3
      f5 == IF from_sensitivity # 0 THEN DataFrame(f4.columns, SelectSeq(f4.rows, above)) ELSE f4
      filtered_df == IF to_sensitivity # -1 THEN DataFrame(f5.columns, SelectSeq(f5.rows, below)) ELSE f5
  IN IF missing # Null
     THEN Exception("ValueError", <<"Missing required column: ">> \o missing.s)
     ELSE IF factory # text.All /\ factory \notin frame.columns
     THEN Exception("KeyError", <<"'">> \o factory \o <<"'">>)
     ELSE IF df_empty(filtered_df)
     THEN Str(<<"No matching opportunities found.">>)
     ELSE json_dumps(
            MkDict(<< <<s_Opportunities,
                        List([i \in DOMAIN filtered_df.rows |->
                                opportunity_of(filtered_df, filtered_df.rows[i])])>>,
                      <<text.Summary,
                        MkDict(<< <<text.TotalProjects, Num(Len(filtered_df.rows))>>,
                                  <<text.TotalValueSum,
                                    Float(FracSum([i \in DOMAIN filtered_df.rows |->
                                            <<fillna(to_numeric(
                                                filtered_df.rows[i][s_TotalValue])).n, 1>>]))>> >>)>> >>))

\* the text a tool returns on an exception of its worker
went_wrong(e) == Str(<<"Error: Something went wrong...\n ">> \o e.msg)

not_loaded == Str(<<"Error: Dataframe not loaded. Please ensure the application has loaded the data.">>)

get_forecast_data(frame, months, factory) ==
  IF frame = Null THEN not_loaded
  ELSE LET returned == datawrangler_get_forecast(frame, months, factory)
       IN IF IsRaise(returned) THEN went_wrong(returned) ELSE returned

get_opportunities_with_filters(frame, month, content_owner, factory, from_sensitivity, to_sensitivity, status) ==
  IF frame = Null THEN not_loaded
  ELSE LET returned == filter_opportunities(frame, month, content_owner, factory,
                                            from_sensitivity, to_sensitivity, status)
       IN IF IsRaise(returned) THEN went_wrong(returned) ELSE returned

-----------------------------------------------------------------------------
(* The reporting tools under test on the frames a load can leave.          *)

\* a row of the normalised frame
Row(id, start, owner, status, psensitivity, total, design, march, june) ==
  MkDict(<< <<s_id, Num(id)>>, <<s_Client, Str(<<"A">>)>>, <<s_ProjectName, Str(<<"X">>)>>,
            <<text.Status, Str(status)>>, <<text.AdB, Str(text.Ann)>>,
            <<text.OpportunityOwner, Str(text.Bob)>>, <<text.ContentOwner, Str(owner)>>,
            <<s_Start, Str(start)>>, <<s_Duration, Num(3)>>,
            <<text.Psensitivity, psensitivity>>, <<s_TotalValue, Num(total)>>,
            <<text.PCC, Num(0)>>, <<text.PE, Num(0)>>, <<text.CPIS, Num(0)>>, <<text.CBE, Num(0)>>,
            <<text.Design, Num(design)>>, <<text.Tech, Num(0)>>, <<text.Others, Num(total - design)>>,
            <<text.March, Num(march)>>, <<text.June, Num(june)>> >>).d

\* one row for every sensitivity from 0 to MaxNum, and one whose sensitivity
\* cell is blank in the sheet
SampleRows ==
  [n \in 1..(MaxNum + 2) |->
     IF n = MaxNum + 2
     THEN Row(n, text.March, text.Ann, text.Open, NaN, 0, 0, 0, 0)
     ELSE Row(n, IF n % 2 = 1 THEN text.March ELSE text.June,
                 IF n % 3 = 0 THEN text.Bob ELSE text.Ann,
                 IF n % 2 = 1 THEN text.Open ELSE text.Lost,
                 Num(n - 1), 2000, (n % 2) * 500, 1500, 500 * (n - 1))]

\* the frames normalize_data yields: at most MaxRows of the rows, in sheet order
Frames ==
  {DataFrame(DOMAIN SampleRows[1], [i \in DOMAIN q |-> SampleRows[q[i]]]) :
     q \in UNION {{p \in [1..k -> DOMAIN SampleRows] :
                     \A i \in 1..k, j \in 1..k : i < j => p[i] < p[j]} : k \in 0..MaxRows}}

\* the frame read_excel yields, its columns not yet named
RawFrame == DataFrame({<<"Unnamed: 0">>}, << (<<"Unnamed: 0">> :> Null) >>)

InitTools ==
  /\ store = <<>>
  /\ today = 1
  /\ writers = [w \in Writers |-> Idle]
  /\ resp = NoResp
  /\ hashseed = TRUE
  /\ df = Null
  /\ call = NoCall
  /\ result = Null

\* reload_forecast_data: the sheet is read and normalised, or one of the two
\* steps fails
ReloadForecastData ==
  /\ \/ \E frame \in Frames :
          /\ df' = frame
          /\ result' = Str(<<"Data loaded successfully">>)
     \/ /\ df' \in {df, RawFrame}
        /\ result' = Str(<<"Failed to load data: ", "error">>)
  /\ call' = [fn |-> "reload_forecast_data"]
  /\ UNCHANGED <<store, today, writers, resp, hashseed>>

MonthLists == {<<>>, <<text.March>>, <<text.June>>, <<text.March, text.June>>, <<text.June, text.June>>, <<text.April>>}

GetForecastData ==
  \E months \in MonthLists, factory \in {text.All, text.Design, text.Sales} :
    /\ call' = [fn |-> "get_forecast_data", months |-> months, factory |-> factory]
    /\ result' = get_forecast_data(df, months, factory)
    /\ df' = IF df = Null THEN df ELSE get_forecast_frame(df, months)
    /\ UNCHANGED <<store, today, writers, resp, hashseed>>

\* the other filters of a call: none, one of them, or all four
OtherFilters ==
  { [month |-> text.All, content_owner |-> text.All, factory |-> text.All, status |-> text.All],
    [month |-> text.March, content_owner |-> text.All, factory |-> text.All, status |-> text.All],
    [month |-> text.All, content_owner |-> text.Ann, factory |-> text.All, status |-> text.All],
    [month |-> text.All, content_owner |-> text.All, factory |-> text.Design, status |-> text.All],
    [month |-> text.All, content_owner |-> text.All, factory |-> text.All, status |-> text.Open],
    [month |-> text.March, content_owner |-> text.Ann, factory |-> text.Design, status |-> text.Open] }

GetOpportunitiesWithFilters ==
  \E o \in OtherFilters, from_sensitivity \in 0..MaxNum, to_sensitivity \in -1..MaxNum :
    /\ call' = [fn |-> "get_opportunities_with_filters", month |-> o.month,
                content_owner |-> o.content_owner, factory |-> o.factory,
                from_sensitivity |-> from_sensitivity,
                to_sensitivity |-> to_sensitivity, status |-> o.status]
    /\ result' = get_opportunities_with_filters(df, o.month, o.content_owner, o.factory,
                                                from_sensitivity, to_sensitivity, o.status)
    /\ UNCHANGED <<store, today, writers, resp, hashseed, df>>

NextTools == ReloadForecastData \/ GetForecastData \/ GetOpportunitiesWithFilters

SpecTools == InitTools /\ [][NextTools]_vars

\* date.today() falls in June 2025
current_month == text.June

\* mcp_config.df holds a normalised frame with rows
Loaded == df # Null /\ df # RawFrame /\ df.rows # <<>>

\* C17 (as claimed): get_forecast_data with an empty month list returns the
\* forecast of the current month: the months mapping of the result has the
\* current month.
C17_EmptyMonthListIsCurrentMonth ==
  (call.fn = "get_forecast_data" /\ call.months = <<>> /\ call.factory = text.All /\ Loaded) =>
    /\ result.t = "json"
    /\ current_month \in DOMAIN result.doc.d[text.months].d

\* the ids of the opportunities a filter call returned
ReturnedIds ==
  IF result.t = "json"
  THEN {result.doc.d[s_Opportunities].l[i].d[s_id] :
          i \in DOMAIN result.doc.d[s_Opportunities].l}
  ELSE {}

\* the row passes the month, content owner, status and factory filters of the call
PassesOthers(row) ==
  /\ call.month # text.All => row[s_Start] = Str(call.month)
  /\ call.content_owner # text.All => row[text.ContentOwner] = Str(call.content_owner)
  /\ call.status # text.All => row[text.Status] = Str(call.status)
  /\ call.factory # text.All => (row[call.factory].t = "num" /\ row[call.factory].n > 0)

\* C18 (as claimed): with a minimum f # 0 and a maximum t # -1 the filter
\* returns exactly the opportunities, among those passing the other filters,
\* whose Psensitivity is a number with f <= Psensitivity <= t.
C18_SensitivityRange ==
  (/\ call.fn = "get_opportunities_with_filters"
   /\ call.from_sensitivity # 0 /\ call.to_sensitivity # -1
   /\ Loaded) =>
    ReturnedIds = {df.rows[i][s_id] :
                     i \in {j \in DOMAIN df.rows :
                              /\ PassesOthers(df.rows[j])
                              /\ df.rows[j][text.Psensitivity].t = "num"
                              /\ call.from_sensitivity <= df.rows[j][text.Psensitivity].n
                              /\ df.rows[j][text.Psensitivity].n <= call.to_sensitivity}}

-----------------------------------------------------------------------------
(* Claims on sequences, the classifier, the explanation and the keys.      *)

\* the element of a sequence at a place, null past its end
Padded(q, i) == IF i <= Len(q) THEN q[i] ELSE Null

\* C21 (as claimed): for two sequences deep_annotate returns {"value": L}, L
\* as long as the longer one and L[i] the annotation of the two elements at i
\* (null for a missing one); the call does not raise.
C21_SequencesPositional ==
  (result # Null /\ call.o1.t = "list" /\ call.o2.t = "list") =>
    LET o == call.o1.l
        n == call.o2.l
        longest == IF Len(o) >= Len(n) THEN Len(o) ELSE Len(n)
    IN /\ ~IsRaise(result)
       /\ result = MkDict(<< <<s_value,
                    List([i \in 1..longest |->
                            deep_annotate(Padded(o, i), Padded(n, i), Null)])>> >>)

\* the records the loop over the keys has classified, before the output filter
Classified == annotated_opps(call.data, call.date1, call.date2).l

\* the non-excluded fields of two matched records whose annotation is or
\* holds a changed leaf
ChangedFields(o, n) ==
  {k \in DOMAIN o.d \cup DOMAIN n.d :
     /\ ~should_exclude_field(k)
     /\ NamesALeaf(deep_annotate(Get(o, k, Null), Get(n, k, Null), Str(k)))}

\* C22 (as claimed): a record of both snapshots is classified Modified exactly
\* when its annotated tree has, at some depth, a mapping with both a field
\* oldest and a field newest, and Unchanged otherwise; hence it is Unchanged
\* exactly when none of its non-excluded fields produced a changed leaf.
C22_StatusClassifier ==
  result.t = "list" =>
    \A i \in DOMAIN Classified :
      LET rec == Classified[i]
          cp == OutClientProject(rec)
      IN (cp \in InBoth /\ DOMAIN LastOf(OlderOpps, cp).d # {}
                        /\ DOMAIN LastOf(NewerOpps, cp).d # {}) =>
           /\ StatusOf(rec) \in {Str(s_Modified), Str(s_Unchanged)}
           /\ StatusOf(rec) = Str(s_Modified) <=>
                NamesALeaf(deep_annotate(LastOf(OlderOpps, cp), LastOf(NewerOpps, cp), Null))
           /\ StatusOf(rec) = Str(s_Unchanged) <=>
                ChangedFields(LastOf(OlderOpps, cp), LastOf(NewerOpps, cp)) = {}

\* the two records of one key of both snapshots, annotated, with the id set
AnnotatedTree(cp, rec) ==
  SetItem(deep_annotate(LastOf(OlderOpps, cp), LastOf(NewerOpps, cp), Null),
          s_id, Get(rec, s_id, Null))

RECURSIVE WalkLeaves(_, _)
\* the changed leaves the explanation walk comes to, each with its path: the
\* walk does not enter the fields id, status and difference_explanation
WalkLeaves(v, path) ==
  CASE v.t = "dict" ->
         IF {s_oldest, s_newest} \subseteq DOMAIN v.d
         THEN {<<path, v>>}
         ELSE UNION {WalkLeaves(v.d[k], Append(path, k)) :
                       k \in DOMAIN v.d \ {s_id, s_status, s_difference_explanation}}
    [] v.t = "list" ->
         UNION {WalkLeaves(v.l[i], Append(path, <<"[">> \o Digits(i - 1) \o <<"]">>)) :
                  i \in DOMAIN v.l}
    [] OTHER -> {}

\* a text begins with another
StartsWith(txt, prefix) ==
  Len(prefix) <= Len(txt) /\ SubSeq(txt, 1, Len(prefix)) = prefix

RECURSIVE IsJoinOf(_, _)
\* a text is the lines of a set, each once, in some order, joined with "\n"
IsJoinOf(txt, lines) ==
  \E line \in lines :
    /\ StartsWith(txt, line)
    /\ LET rest == SubSeq(txt, Len(line) + 1, Len(txt))
       IN IF lines = {line}
          THEN rest = <<>>
          ELSE /\ rest # <<>>
               /\ Head(rest) = "\n"
               /\ IsJoinOf(Tail(rest), lines \ {line})

s_fallback == <<"No specific differences found">>

\* the Modified records of the result that stand for a key of both snapshots
ModifiedOut ==
  {i \in DOMAIN result.l :
     /\ StatusOf(result.l[i]) = Str(s_Modified)
     /\ OutClientProject(result.l[i]) \in InBoth}

\* the line of each changed leaf the walk comes to in a record of ModifiedOut
WalkLines(rec) ==
  {explain_leaf(leaf[2], leaf[1]) :
     leaf \in WalkLeaves(AnnotatedTree(OutClientProject(rec), rec), <<>>)}

\* C23: a record classified Modified has a non-empty difference_explanation:
\* one line for each changed leaf the explanation walk comes to (the lines
\* joined with "\n"), or the one line "No specific differences found" exactly
\* when the walk comes to no changed leaf.
C23_ModifiedIsExplained ==
  result.t = "list" =>
    \A i \in ModifiedOut :
      LET rec == result.l[i]
          explanation == Get(rec, s_difference_explanation, Null)
          leaves == WalkLeaves(AnnotatedTree(OutClientProject(rec), rec), <<>>)
      IN /\ explanation.t = "str"
         /\ explanation.s # <<>>
         /\ Cardinality(WalkLines(rec)) = Cardinality(leaves)
         /\ explanation.s = s_fallback <=> leaves = {}
         /\ leaves # {} => IsJoinOf(explanation.s, WalkLines(rec))

\* a Modified record whose changed leaf the walk does not come to
C23_Witness ==
  /\ result.t = "list"
  /\ \E i \in ModifiedOut :
       /\ Get(result.l[i], s_difference_explanation, Null).s = s_fallback
       /\ WalkLines(result.l[i]) = {}
       /\ NamesALeaf(AnnotatedTree(OutClientProject(result.l[i]), result.l[i]))

\* the rows of a date
RowsOf(date_str) == {i \in DOMAIN store : store[i].fdate = date_str}

\* C24: the test and the insert of the snapshot job are two steps: a job goes
\* on to insert_record when the table had no row of the date at its test, and
\* then inserts its row whatever the table holds by then; so two jobs can both
\* pass the test of one date before either inserts, and both insert.
C24_CheckThenInsert ==
  /\ [][\A w \in Writers :
          (writers[w].pc = "idle" /\ writers'[w].pc = "checked") =>
            /\ RowsOf(writers'[w].today) = {}
            /\ store' = store]_vars
  /\ [][\A w \in Writers :
          (writers[w].pc = "checked" /\ writers'[w].pc = "idle") =>
            /\ Len(store') = Len(store) + 1
            /\ store'[Len(store')].fdate = writers[w].today
            /\ SubSeq(store', 1, Len(store)) = store]_vars

\* two jobs passed the test of one date: one has inserted its row, the other
\* is at insert_record for the same date
C24_Witness ==
  /\ \E w \in Writers : writers[w].pc = "checked" /\ RowsOf(writers[w].today) # {}
  /\ resp.op = "insert_record"

\* The caller keeps the list it was returned and asks again with the same
\* input, of the same process or of one started anew, whose string-hash seed
\* is drawn again.
AskAgain ==
  /\ call.fn = "compare_forecast_entries"
  /\ result # Null
  /\ resp = NoResp
  /\ resp' = [op |-> "returned", value |-> result]
  /\ result' = Null
  /\ hashseed' \in BOOLEAN
  /\ UNCHANGED <<store, today, writers, df, call>>

\* The diff invoked twice on one input.
SpecRepeat == InitDiff /\ [][CompareForecastEntries \/ AskAgain]_vars

\* C25 (as claimed): two invocations of compare_forecast_entries on the same
\* input return the same list: the same records in the same order, the lines
\* of every difference_explanation in the same order.
C25_SameInputSameList ==
  (resp.op = "returned" /\ result # Null) => result = resp.value

-----------------------------------------------------------------------------
(* compare_forecast_entries of update_history.py, the copy of the diff that *)
(* the snapshot job's module holds. Its annotate_diff, is_empty,            *)
(* should_exclude_field, filter_excluded_fields, check_for_differences,     *)
(* generate_difference_explanation, create_composite_key and output filter  *)
(* read as the server's; its deep_annotate and its second skip rule test    *)
(* pd.isna where the server's test is_empty.                                *)

RECURSIVE history_deep_annotate(_, _, _)
history_deep_annotate(o1, o2, key) ==
  LET n1 == pd_isna(o1)
      n2 == pd_isna(o2)
      both_nan == And3(n1, n2)
      gained == And3(n1, Not3(n2))
      same == Or3(Bool3(PyEq(o1, o2)), And3(Not3(n1), n2))
      both == And3(is_empty(o1), is_empty(o2))
  IN
  IF key \in {Str(s_Start), Str(s_Duration)} THEN
    IF both_nan \notin {"True", "False"} THEN Raise(both_nan)
    ELSE IF both_nan = "True" THEN MkDict(<< <<s_value, Null>> >>)
    ELSE IF gained = "True"
    THEN MkDict(<< <<s_oldest, o1>>, <<s_newest, o2>>, <<s_difference, o2>> >>)
    ELSE IF same \notin {"True", "False"} THEN Raise(same)
    ELSE IF same = "True" THEN MkDict(<< <<s_value, o1>> >>)
    ELSE annotate_diff(o1, o2)
  ELSE IF both \notin {"True", "False"} THEN Raise(both)
  ELSE IF both = "True" THEN MkDict(<< <<s_value, Null>> >>)
  ELSE IF o1.t = "null"
  THEN MkDict(<< <<s_oldest, Null>>, <<s_newest, o2>>, <<s_difference, o2>> >>)
  ELSE IF o2.t = "null"
  THEN MkDict(<< <<s_oldest, o1>>, <<s_newest, Null>>, <<s_difference, Null>> >>)
  ELSE IF o1.t = "dict" /\ o2.t = "dict" THEN
    LET keys == {k \in DOMAIN o1.d \cup DOMAIN o2.d : ~should_exclude_field(k)}
        sub == [k \in keys |->
                  history_deep_annotate(Get(o1, k, Null), Get(o2, k, Null), Str(k))]
    IN IF \E k \in keys : IsRaise(sub[k])
       THEN sub[CHOOSE k \in keys : IsRaise(sub[k])]
       ELSE Dict(sub)
  ELSE IF o1.t = "list" /\ o2.t = "list" THEN
    LET max_len == IF Len(o1.l) >= Len(o2.l) THEN Len(o1.l) ELSE Len(o2.l)
        item(q, i) == IF i <= Len(q) THEN q[i] ELSE Null
        items == [i \in 1..max_len |->
                    history_deep_annotate(item(o1.l, i), item(o2.l, i), Null)]
    IN IF \E i \in 1..max_len : IsRaise(items[i])
       THEN items[CHOOSE i \in 1..max_len : IsRaise(items[i])]
       ELSE MkDict(<< <<s_value, List(items)>> >>)
  ELSE annotate_diff(o1, o2)

\* One turn of the loop over all_keys of update_history.py: what it appends
\* to annotated_opps (no record or one), or <<Raise(exc)>> when it raises.
history_annotate_key(key, opps1, opps2, d1, d2) ==
  LET opp1 == IF key \in DOMAIN opps1 THEN opps1[key] ELSE Null
      opp2 == IF key \in DOMAIN opps2 THEN opps2[key] ELSE Null
      skip2 == And3(pd_isna(Get(opp1, s_Start, Null)),
               And3(pd_isna(Get(opp2, s_Start, Null)),
               And3(pd_isna(Get(opp1, s_Duration, Null)),
                    pd_isna(Get(opp2, s_Duration, Null)))))
      annotated == history_deep_annotate(opp1, opp2, Null)
      with_id == SetItem(annotated, s_id, Get(opp2, s_id, Get(opp1, s_id, Str(s_empty))))
      explanations == generate_difference_explanation(with_id, <<>>)
      single(opp, status, explanation) ==
        LET filtered == filter_excluded_fields(opp)
            head == MkDict(<< <<s_id, Get(opp, s_id, Str(s_empty))>>,
                              <<s_status, Str(status)>>,
                              <<s_difference_explanation, Str(explanation)>> >>)
        IN Dict([k \in DOMAIN head.d \cup DOMAIN filtered.d |->
                   IF k \in DOMAIN filtered.d THEN filtered.d[k] ELSE head.d[k]])
  IN
  IF skip_total_zero(opp1) THEN <<>>
  ELSE IF Truthy(opp1) /\ Truthy(opp2) THEN
    IF skip2 \notin {"True", "False"} THEN <<Raise(skip2)>>
    ELSE IF skip2 = "True" THEN <<>>
    ELSE IF IsRaise(annotated) THEN <<annotated>>
    ELSE IF check_for_differences(with_id)
    THEN << SetItem(SetItem(with_id, s_status, Str(s_Modified)),
                    s_difference_explanation,
                    Str(IF explanations # <<>>
                        THEN Join(<<"\n">>, explanations)
                        ELSE <<"No specific differences found">>)) >>
    ELSE << SetItem(with_id, s_status, Str(s_Unchanged)) >>
  ELSE IF Truthy(opp1)
  THEN << single(opp1, s_Deleted,
            <<"This opportunity was present in ">> \o PyStr(d1)
              \o <<" but removed in ">> \o PyStr(d2)) >>
  ELSE IF Truthy(opp2)
  THEN << single(opp2, s_New, <<"This is a new opportunity added in ">> \o PyStr(d2)) >>
  ELSE <<>>

\* compare_forecast_entries(data, date1, date2) of update_history.py
history_compare_forecast_entries(dat, d1, d2) ==
  LET opps1 == KeyedOpps(Opportunities(dat, d1))
      opps2 == KeyedOpps(Opportunities(dat, d2))
      all_keys == IterOrder(DOMAIN opps1 \cup DOMAIN opps2)
      turns == [i \in DOMAIN all_keys |->
                  history_annotate_key(all_keys[i], opps1, opps2, d1, d2)]
      raising == {i \in DOMAIN turns : turns[i] # <<>> /\ IsRaise(turns[i][1])}
  IN IF raising # {}
     THEN turns[CHOOSE i \in raising : \A j \in raising : i <= j][1]
     ELSE List(filter_unchanged(Flatten(turns)))

\* what the copy of update_history.py returns for the input of the call
HistoryResult == history_compare_forecast_entries(call.data, call.date1, call.date2)

\* C26 (as claimed): for every input the server's compare_forecast_entries and
\* the one of update_history.py return the same set of annotated records with
\* the same statuses, also for records whose Start or Duration is blank.
C26_SameAsUpdateHistory ==
  result # Null =>
    IF result.t = "list"
    THEN /\ HistoryResult.t = "list"
         /\ {result.l[i] : i \in DOMAIN result.l}
              = {HistoryResult.l[i] : i \in DOMAIN HistoryResult.l}
    ELSE HistoryResult = result

-----------------------------------------------------------------------------
(* create_composite_key under test, on two records of two snapshots.       *)

\* two records, each with a Client and a Project Name drawn from texts with
\* and without the separator, the empty text and None, or without the field
InitKey ==
  LET absent == [t |-> "absent"]
      clients == {absent, Null, Str(s_empty), Str(<<"A">>), Str(<<"A", "_", "_">>),
                  Str(s_None)}
      projects == {absent, Str(s_empty), Str(<<"X">>), Str(<<"_", "_", "X">>)}
      record(c, p) ==
        Dict([k \in (IF c = absent THEN {} ELSE {s_Client})
                      \cup (IF p = absent THEN {} ELSE {s_ProjectName})
                |-> IF k = s_Client THEN c ELSE p])
      records == {record(c, p) : c \in clients, p \in projects}
  IN /\ store = <<>>
     /\ today = 1
     /\ writers = [w \in Writers |-> Idle]
     /\ resp = NoResp
     /\ hashseed = TRUE
     /\ df = Null
     /\ call \in {[fn |-> "create_composite_key", opp1 |-> a, opp2 |-> b] :
                    a \in records, b \in records}
     /\ result = Null

\* the keys of the two dictionaries opps1 and opps2
CreateCompositeKey ==
  /\ call.fn = "create_composite_key"
  /\ result = Null
  /\ result' = <<create_composite_key(call.opp1), create_composite_key(call.opp2)>>
  /\ UNCHANGED <<store, today, writers, resp, hashseed, df, call>>

SpecKey == InitKey /\ [][CreateCompositeKey]_vars

\* C27 (as claimed): two records whose (Client, Project Name) pairs differ
\* never receive the same composite key, whatever the two fields hold and
\* whether or not a field is missing.
C27_KeyTellsPairsApart ==
  (result # Null /\ ClientProject(call.opp1) # ClientProject(call.opp2)) =>
    result[1] # result[2]

\* the composite keys that both snapshots hold
KeysOfBoth ==
  {create_composite_key(OlderOpps[i]) : i \in DOMAIN OlderOpps}
    \cap {create_composite_key(NewerOpps[i]) : i \in DOMAIN NewerOpps}

\* the records the loop appended for a composite key
ClassifiedAs(key) ==
  annotate_key(key, KeyedOpps(OlderOpps), KeyedOpps(NewerOpps), call.date1, call.date2)

\* C28 (as claimed): a composite key that both snapshots hold is never emitted
\* with status New or Deleted, whatever its records hold (a record without any
\* field included), and every composite key yields at most one output record.
C28_MatchedNeverNewOrDeleted ==
  result.t = "list" =>
    /\ \A key \in KeysOfBoth :
         \A i \in DOMAIN ClassifiedAs(key) :
           StatusOf(ClassifiedAs(key)[i]) \notin {Str(s_New), Str(s_Deleted)}
    /\ \A key \in DOMAIN KeyedOpps(OlderOpps) \cup DOMAIN KeyedOpps(NewerOpps) :
         Len(ClassifiedAs(key)) <= 1

\* what a request for the days k1 and k2 resolves to in a table, and the two
\* forecasts then read
ResolvedIn(db, k1, k2) == get_closest_dates(db, strftime(k1), strftime(k2))
ReadIn(db, k1, k2) == read_forecasts(db, ResolvedIn(db, k1, k2)[1], ResolvedIn(db, k1, k2)[2])

\* a step keeps what a request resolved to with both sides present
KeptResolved(k1, k2) ==
  (ResolvedIn(store, k1, k2)[1] # Null /\ ResolvedIn(store, k1, k2)[2] # Null) =>
    /\ ResolvedIn(store', k1, k2) = ResolvedIn(store, k1, k2)
    /\ ReadIn(store', k1, k2) = ReadIn(store, k1, k2)

C30_FailedReloadKeepsFrame ==
  [][(call'.fn = "reload_forecast_data"
        /\ result'.t = "str"
        /\ StartsWith(result'.s, <<"Failed to load data: ">>))
      => df' = df]_vars
====
